---- MODULE Spec2Model ----
(***************************************************************************)
(* Spreadsheet ingestion pipeline of the event application: the            *)
(* sync-sheets edge function (two revisions), its normalizers and the      *)
(* three store tables it replaces.                                         *)
(*                                                                         *)
(* Text is modelled as a sequence of one-character strings, so that the    *)
(* regular expressions, trim() and padStart() of the source are computed   *)
(* character by character.  null / undefined is the value Null.            *)
(***************************************************************************)
EXTENDS Integers, Sequences, FiniteSets, TLC

\* ------------------------------------------------------------------ bounds

\* Largest number of data rows in a sheet the environment serves.
MaxRows == 2

\* ------------------------------------------------------- program constants

MAX_FILE_SIZE == 10485760

MAX_ROWS == 10000

\* ------------------------------------------------------------------- text

Null == <<"null">>

Digits == {"0", "1", "2", "3", "4", "5", "6", "7", "8", "9"}

DateSeps == {".", "/", "-"}

Whitespace == {" "}

IsDigit(c) == c \in Digits

AllDigits(s) == \A i \in DOMAIN s : IsDigit(s[i])

Rep(c, n) == [i \in 1..n |-> c]

\* String.prototype.trim
RECURSIVE TrimLeft(_)
TrimLeft(s) ==
    IF s = <<>> THEN s
    ELSE IF Head(s) \in Whitespace THEN TrimLeft(Tail(s)) ELSE s

RECURSIVE TrimRight(_)
TrimRight(s) ==
    IF s = <<>> THEN s
    ELSE IF s[Len(s)] \in Whitespace THEN TrimRight(SubSeq(s, 1, Len(s) - 1)) ELSE s

Trim(s) == TrimRight(TrimLeft(s))

\* String.prototype.padStart(2, '0')
PadStart2(s) == IF Len(s) < 2 THEN Rep("0", 2 - Len(s)) \o s ELSE s

\* JavaScript truthiness of a cell: undefined, null and '' are falsy.
Truthy(v) == v # Null /\ v # <<>>

\* a || b
Or(a, b) == IF Truthy(a) THEN a ELSE b

\* row.<header>: undefined when the row has no such column.
Cell(row, header) == IF header \in DOMAIN row THEN row[header] ELSE Null

\* getTrimmed; str is bound to its value as a const declaration is
GetTrimmed(value) ==
    CHOOSE r \in {IF v = Null \/ v = <<>> THEN Null
                  ELSE CHOOSE q \in {IF str = <<>> THEN Null ELSE str : str \in {Trim(v)}} : TRUE
                  : v \in {value}} : TRUE

\* -------------------------------------------------------------- normalizers

\* /^\d{4}-\d{2}-\d{2}$/
IsIsoDate(s) ==
    /\ Len(s) = 10
    /\ s[5] = "-" /\ s[8] = "-"
    /\ AllDigits(SubSeq(s, 1, 4)) /\ AllDigits(SubSeq(s, 6, 7))
    /\ AllDigits(SubSeq(s, 9, 10))

\* /^(\d{1,2})[./-](\d{1,2})[./-](\d{4})$/ and /^(\d{4})[./-](\d{1,2})[./-](\d{1,2})$/:
\* the pairs <<a, b>> of lengths of the two 1-2 digit groups under which s matches
\* (at most one pair, the separators not being digits).
DayFirstSplits(s) ==
    {ab \in (1..2) \X (1..2) :
        /\ Len(s) = ab[1] + ab[2] + 6
        /\ AllDigits(SubSeq(s, 1, ab[1]))
        /\ s[ab[1] + 1] \in DateSeps
        /\ AllDigits(SubSeq(s, ab[1] + 2, ab[1] + 1 + ab[2]))
        /\ s[ab[1] + ab[2] + 2] \in DateSeps
        /\ AllDigits(SubSeq(s, ab[1] + ab[2] + 3, Len(s)))}

YearFirstSplits(s) ==
    {ab \in (1..2) \X (1..2) :
        /\ Len(s) = ab[1] + ab[2] + 6
        /\ AllDigits(SubSeq(s, 1, 4))
        /\ s[5] \in DateSeps
        /\ AllDigits(SubSeq(s, 6, 5 + ab[1]))
        /\ s[6 + ab[1]] \in DateSeps
        /\ AllDigits(SubSeq(s, 7 + ab[1], Len(s)))}

\* The parts written day-first with dots, the day and the month exchanged.
IsoOfSwapped(year, month, day) ==
    PadStart2(month) \o <<".">> \o PadStart2(day) \o <<".">> \o year

\* The date with the first group read as the month.
IsoOfMonthFirst(year, month, day) ==
    year \o <<"-">> \o PadStart2(day) \o <<"-">> \o PadStart2(month)

IsoOf(year, month, day) ==
    year \o <<"-">> \o PadStart2(month) \o <<"-">> \o PadStart2(day)

\* new Date(trimmed) followed by toISOString().split('T')[0], for the inputs
\* that reach it: a text without any digit is an Invalid Date; the date-only
\* forms YYYY and YYYY-MM of the ECMAScript date-time format are read as UTC.
GenericDateParse(s) ==
    IF \A i \in DOMAIN s : ~IsDigit(s[i]) THEN Null
    ELSE IF Len(s) = 4 /\ AllDigits(s) THEN s \o <<"-", "0", "1", "-", "0", "1">>
    ELSE IF /\ Len(s) = 7 /\ AllDigits(SubSeq(s, 1, 4)) /\ s[5] = "-"
            /\ SubSeq(s, 6, 7) \in
                 {<<"0", d>> : d \in Digits \ {"0"}} \cup
                 {<<"1", "0">>, <<"1", "1">>, <<"1", "2">>}
         THEN s \o <<"-", "0", "1">>
    ELSE Null

\* parseFlexibleDate; trimmed is bound to its value as a const declaration is
parseFlexibleDate(dateStr) ==
    IF dateStr = Null \/ dateStr = <<>> THEN Null
    ELSE CHOOSE r \in {
             IF trimmed = <<>> THEN Null
             ELSE IF IsIsoDate(trimmed) THEN trimmed
             ELSE IF DayFirstSplits(trimmed) # {} THEN
                  LET ab == CHOOSE x \in DayFirstSplits(trimmed) : TRUE
                      day == SubSeq(trimmed, 1, ab[1])
                      month == SubSeq(trimmed, ab[1] + 2, ab[1] + 1 + ab[2])
                      year == SubSeq(trimmed, ab[1] + ab[2] + 3, Len(trimmed))
                  IN  IsoOf(year, month, day)
             ELSE IF YearFirstSplits(trimmed) # {} THEN
                  LET ab == CHOOSE x \in YearFirstSplits(trimmed) : TRUE
                      year == SubSeq(trimmed, 1, 4)
                      month == SubSeq(trimmed, 6, 5 + ab[1])
                      day == SubSeq(trimmed, 7 + ab[1], Len(trimmed))
                  IN  IsoOf(year, month, day)
             ELSE GenericDateParse(trimmed)
             : trimmed \in {Trim(dateStr)}} : TRUE

\* /^\d{1,2}:\d{2}$/ and /^(\d{1,2})\.(\d{2})$/, by separator
IsHourSepMinute(s, sep) ==
    /\ Len(s) \in 4..5
    /\ s[Len(s) - 2] = sep
    /\ AllDigits(SubSeq(s, 1, Len(s) - 3))
    /\ AllDigits(SubSeq(s, Len(s) - 1, Len(s)))

\* /^(\d{2})(\d{2})$/: four digits only.
IsHourMinuteDigitsFour(s) == Len(s) = 4 /\ AllDigits(s)

\* /^(\d{1,2})(\d{2})$/
IsHourMinuteDigits(s) == Len(s) \in 3..4 /\ AllDigits(s)

\* /^(\d{1,2}):(\d{2}):\d{2}$/
IsWithSeconds(s) ==
    /\ Len(s) \in 7..8
    /\ s[Len(s) - 2] = ":"
    /\ AllDigits(SubSeq(s, Len(s) - 1, Len(s)))
    /\ IsHourSepMinute(SubSeq(s, 1, Len(s) - 3), ":")

\* parseFlexibleTime; trimmed is bound to its value as a const declaration is
parseFlexibleTime(timeStr) ==
    IF timeStr = Null \/ timeStr = <<>> THEN Null
    ELSE CHOOSE r \in {
             IF trimmed = <<>> THEN Null
             ELSE IF IsHourSepMinute(trimmed, ":") \/ IsHourSepMinute(trimmed, ".") THEN
                  PadStart2(SubSeq(trimmed, 1, Len(trimmed) - 3)) \o <<":">>
                      \o SubSeq(trimmed, Len(trimmed) - 1, Len(trimmed))
             ELSE IF IsHourMinuteDigits(trimmed) THEN
                  PadStart2(SubSeq(trimmed, 1, Len(trimmed) - 2)) \o <<":">>
                      \o SubSeq(trimmed, Len(trimmed) - 1, Len(trimmed))
             ELSE IF IsWithSeconds(trimmed) THEN
                  PadStart2(SubSeq(trimmed, 1, Len(trimmed) - 6)) \o <<":">>
                      \o SubSeq(trimmed, Len(trimmed) - 4, Len(trimmed) - 3)
             ELSE Null
             : trimmed \in {Trim(timeStr)}} : TRUE

\* ------------------------------------------------------------ entity types

EntityTypes == <<"program", "participants", "exhibitors">>

TableOf(t) ==
    CASE t = "program" -> "program_items"
      [] t = "participants" -> "participants"
      [] t = "exhibitors" -> "exhibitors"

SheetOf(t) ==
    CASE t = "program" -> "Program"
      [] t = "participants" -> "Deltakere"
      [] t = "exhibitors" -> "Utstillere"

Tables == {TableOf(EntityTypes[i]) : i \in 1..3}

DigitOf == <<"0", "1", "2", "3", "4", "5", "6", "7", "8", "9">>

\* `${rowNum}`
RECURSIVE ToDecimal(_)
ToDecimal(n) ==
    IF n < 10 THEN <<DigitOf[n + 1]>>
    ELSE ToDecimal(n \div 10) \o <<DigitOf[(n % 10) + 1]>>

\* the value of a text of digits
RECURSIVE NumValUpTo(_, _)
NumValUpTo(s, k) ==
    IF k = 0 THEN 0
    ELSE 10 * NumValUpTo(s, k - 1) + (CHOOSE d \in 0..9 : DigitOf[d + 1] = s[k])

NumVal(s) == NumValUpTo(s, Len(s))

\* UUID_REGEX, with its i flag
IsUuid(s) ==
    /\ Len(s) = 36
    /\ \A i \in 1..36 :
         IF i \in {9, 14, 19, 24} THEN s[i] = "-"
         ELSE s[i] \in Digits \cup {"a", "b", "c", "d", "e", "f", "A", "B", "C", "D", "E", "F"}

Uuid(c) ==
    Rep(c, 8) \o <<"-">> \o Rep(c, 4) \o <<"-">> \o Rep(c, 4) \o <<"-">>
        \o Rep(c, 4) \o <<"-">> \o Rep(c, 12)

\* -------------------------------------------------------------- the store

\* The events table holds two events; EventGone is a well-formed id of no event.
EventA == Uuid("a")

EventB == Uuid("b")

EventGone == Uuid("c")

\* Days of a month of the proleptic Gregorian calendar.
DaysIn(year, month) ==
    IF month \in {4, 6, 9, 11} THEN 30
    ELSE IF month # 2 THEN 31
    ELSE IF year % 4 = 0 /\ (year % 100 # 0 \/ year % 400 = 0) THEN 29 ELSE 28

\* What a column of type date does with a text: "yes" for a calendar date
\* in ISO form, "no" for null, for an ISO-shaped text that is no calendar
\* date and for a text without digits, "maybe" for the other texts (whose
\* reading depends on the server's DateStyle).
DateColumn(v) ==
    IF v = Null \/ (\A i \in DOMAIN v : ~IsDigit(v[i])) THEN "no"
    ELSE IF IsIsoDate(v) THEN
         LET y == NumVal(SubSeq(v, 1, 4))
             m == NumVal(SubSeq(v, 6, 7))
             d == NumVal(SubSeq(v, 9, 10))
         IN  IF y >= 1 /\ m \in 1..12 /\ d >= 1 /\ d <= DaysIn(y, m)
             THEN "yes" ELSE "no"
    ELSE "maybe"

\* What a column of type time does with a text.
TimeColumn(v) ==
    IF v = Null \/ (\A i \in DOMAIN v : ~IsDigit(v[i])) THEN "no"
    ELSE IF Len(v) = 5 /\ IsHourSepMinute(v, ":") THEN
         IF \/ NumVal(SubSeq(v, 1, 2)) <= 23 /\ NumVal(SubSeq(v, 4, 5)) <= 59
            \/ v = <<"2", "4", ":", "0", "0">>
         THEN "yes" ELSE "no"
    ELSE "maybe"

\* event_id uuid references events(id) not null
EventColumn(v, evs) ==
    IF v # Null /\ IsUuid(v) /\ v \in evs THEN "yes" ELSE "no"

NotNullColumn(v) == IF v = Null THEN "no" ELSE "yes"

\* The columns' verdicts on one row of a table.
RowVerdicts(table, row, evs) ==
    CASE table = "program_items" ->
           {EventColumn(row.event_id, evs), DateColumn(row.day),
            TimeColumn(row.start_time), NotNullColumn(row.title),
            IF row.end_time = Null THEN "yes" ELSE TimeColumn(row.end_time)}
      [] table = "participants" ->
           {EventColumn(row.event_id, evs), NotNullColumn(row.name)}
      [] table = "exhibitors" ->
           {EventColumn(row.event_id, evs), NotNullColumn(row.company_name)}

\* The results a bulk insert of rows can have: one statement, all rows or none.
InsertOutcomes(table, rows, evs) ==
    LET verdicts == UNION {RowVerdicts(table, rows[i], evs) : i \in DOMAIN rows}
    IN  IF "no" \in verdicts THEN {"error"} ELSE {"ok", "error"}

\* A delete that removes nothing.
RowsAfterDeleteNone(rows, eventId) == rows

\* A delete without a filter.
RowsAfterDeleteAll(rows, eventId) == <<>>

\* delete().eq('event_id', eventId): the rows left in the table.
RowsAfterDelete(rows, eventId) ==
    SelectSeq(rows, LAMBDA r : r.event_id # eventId)

\* The results a delete by event id can have.
DeleteOutcomes(eventId) ==
    IF eventId # Null /\ IsUuid(eventId) THEN {"ok", "error"} ELSE {"error"}

RowsOfEvent(rows, eventId) == SelectSeq(rows, LAMBDA r : r.event_id = eventId)

\* --------------------------------------------- rows to records (part_004)

Untitled == <<"U", "n", "t", "i", "t", "l", "e", "d">>

Unknown == <<"U", "n", "k", "n", "o", "w", "n">>

UnknownCompany == Unknown \o <<" ", "C", "o", "m", "p", "a", "n", "y">>

\* .filter((row) => row && Object.keys(row).length > 0)
NonEmptyRows(data) == SelectSeq(data, LAMBDA row : DOMAIN row # {})

\* .slice(0, n)
Slice(s, n) == SubSeq(s, 1, IF Len(s) < n THEN Len(s) ELSE n)

\* the record the map callback of the Program sheet returns for a row
ProgramRecord(row, rowNum, eventId) ==
    LET dayRaw == GetTrimmed(Or(Or(Or(Cell(row, "dag"), Cell(row, "Dag")),
                                   Cell(row, "day")), Cell(row, "Day")))
        startRaw == GetTrimmed(Or(Cell(row, "start"), Cell(row, "Start")))
        endRaw == GetTrimmed(Or(Cell(row, "end"), Cell(row, "End")))
        titleRaw == GetTrimmed(Or(Or(Or(Cell(row, "tittel"), Cell(row, "Tittel")),
                                     Cell(row, "title")), Cell(row, "Title")))
        descriptionRaw ==
            GetTrimmed(Or(Or(Or(Cell(row, "beskrivelse"), Cell(row, "Beskrivelse")),
                             Cell(row, "description")), Cell(row, "Description")))
        locationRaw == GetTrimmed(Or(Or(Or(Cell(row, "sted"), Cell(row, "Sted")),
                                        Cell(row, "location")), Cell(row, "Location")))
    IN  [event_id |-> eventId,
         external_id |-> <<"p">> \o ToDecimal(rowNum),
         day |-> parseFlexibleDate(dayRaw),
         start_time |-> parseFlexibleTime(startRaw),
         end_time |-> parseFlexibleTime(endRaw),
         title |-> Or(titleRaw, Untitled),
         description |-> descriptionRaw,
         location |-> locationRaw]

\* A filter that lets a Program record without a day through.
KeepProgramItemAnyDay(item) ==
    /\ Truthy(item.start_time)
    /\ Truthy(item.title) /\ item.title # Untitled

\* the filter callback of the Program records
KeepProgramItem(item) ==
    /\ Truthy(item.day) /\ Truthy(item.start_time)
    /\ Truthy(item.title) /\ item.title # Untitled

ParticipantRecord(row, rowNum, eventId) ==
    LET nameRaw == GetTrimmed(Or(Or(Or(Cell(row, "navn"), Cell(row, "Navn")),
                                    Cell(row, "name")), Cell(row, "Name")))
        companyRaw == GetTrimmed(Or(Or(Or(Cell(row, "bedrift"), Cell(row, "Bedrift")),
                                       Cell(row, "company")), Cell(row, "Company")))
    IN  [event_id |-> eventId,
         external_id |-> <<"d">> \o ToDecimal(rowNum),
         name |-> Or(nameRaw, Unknown),
         company |-> companyRaw]

KeepParticipant(item) == Truthy(item.name) /\ item.name # Unknown

ExhibitorRecord(row, rowNum, eventId) ==
    LET companyRaw ==
            GetTrimmed(Or(Or(Or(Cell(row, "bedriftsnavn"), Cell(row, "Bedriftsnavn")),
                             Cell(row, "company")), Cell(row, "Company")))
        standRaw ==
            GetTrimmed(Or(Or(Or(Cell(row, "standnummer"), Cell(row, "Standnummer")),
                             Cell(row, "stand")), Cell(row, "Stand")))
    IN  [event_id |-> eventId,
         external_id |-> <<"u">> \o ToDecimal(rowNum),
         company_name |-> Or(companyRaw, UnknownCompany),
         stand_number |-> standRaw]

KeepExhibitor(item) == Truthy(item.company_name) /\ item.company_name # UnknownCompany

RecordOf(t, row, rowNum, eventId) ==
    CASE t = "program" -> ProgramRecord(row, rowNum, eventId)
      [] t = "participants" -> ParticipantRecord(row, rowNum, eventId)
      [] t = "exhibitors" -> ExhibitorRecord(row, rowNum, eventId)

Keep(t, item) ==
    CASE t = "program" -> KeepProgramItem(item)
      [] t = "participants" -> KeepParticipant(item)
      [] t = "exhibitors" -> KeepExhibitor(item)

\* data.filter(...).slice(0, MAX_ROWS).map(...).filter(...): the rows to insert
RecordsOf(t, data, eventId) ==
    LET rows == Slice(NonEmptyRows(data), MAX_ROWS)
        mapped == [i \in 1..Len(rows) |-> RecordOf(t, rows[i], i, eventId)]
    IN  SelectSeq(mapped, LAMBDA item : Keep(t, item))

\* ------------------------------------------------------------------ inputs

SeqsUpTo(S, n) == UNION {[1..k -> S] : k \in 0..n}

\* Rows as the CSV parser (header: true, dynamicTyping: false) yields them: a
\* mapping of column header to cell text.
ProgramRows ==
    {[dag |-> <<"1", "5", ".", "0", "3", ".", "2", "0", "2", "6">>,
      start |-> <<"9", ".", "3", "0">>,
      tittel |-> <<"A", "p", "n", "i", "n", "g">>],
     [dag |-> <<>>,
      start |-> <<"1", "0", ":", "0", "0">>,
      tittel |-> <<"K", "e", "y", "n", "o", "t", "e">>],
     [Dag |-> <<"n", "o", "t", "-", "a", "-", "d", "a", "t", "e">>,
      Start |-> <<"0", "9", ":", "3", "0">>,
      Tittel |-> <<"P", "a", "u", "s", "e">>],
     [day |-> <<"2", "0", "2", "6", "/", "0", "3", "/", "1", "5">>,
      title |-> <<" ", "L", "u", "n", "c", "h">>,
      location |-> <<"H", "a", "l", "l">>]}

ParticipantRows ==
    {[navn |-> <<"K", "a", "r", "i">>, bedrift |-> <<"M", "E", "F">>],
     [navn |-> <<" ">>, Bedrift |-> <<"V", "e", "i">>]}

ExhibitorRows ==
    {[bedriftsnavn |-> <<"V", "o", "l", "v", "o">>, standnummer |-> <<"A", "1">>],
     [Company |-> <<>>, stand |-> <<"B", "2">>]}

RowsOfSheet(t) ==
    CASE t = "program" -> ProgramRows
      [] t = "participants" -> ParticipantRows
      [] t = "exhibitors" -> ExhibitorRows

Sheets(t) == SeqsUpTo(RowsOfSheet(t), MaxRows)

\* The rows an earlier sync left in a table for an event.
OldRow(table, eventId) ==
    CASE table = "program_items" ->
           [event_id |-> eventId, external_id |-> <<"p", "1">>,
            day |-> <<"2", "0", "2", "5", "-", "0", "1", "-", "0", "1">>,
            start_time |-> <<"0", "8", ":", "0", "0">>, end_time |-> Null,
            title |-> <<"O", "l", "d">>, description |-> Null, location |-> Null]
      [] table = "participants" ->
           [event_id |-> eventId, external_id |-> <<"d", "1">>,
            name |-> <<"O", "l", "d">>, company |-> Null]
      [] table = "exhibitors" ->
           [event_id |-> eventId, external_id |-> <<"u", "1">>,
            company_name |-> <<"O", "l", "d">>, stand_number |-> Null]

Users == {"admin1", "super1", "user1"}

\* The Authorization header: absent, a token the identity provider rejects,
\* or the token of a user.
AuthHeaders == {"none", "invalid"} \cup Users

GoogleSheetsPrefix == "https://docs.google.com/spreadsheets/d/"

\* A URL as a sequence of pieces: a head, then the characters after it.
GoodUrl == <<GoogleSheetsPrefix, "s", "1">>

OtherUrl == <<"https://example.org/d/", "s", "1">>

JsUndefined == [type |-> "undefined", val |-> <<>>]

JsString(s) == [type |-> "string", val |-> s]

SheetsUrls == {JsUndefined, [type |-> "number", val |-> <<"4", "2">>], JsString(OtherUrl), JsString(GoodUrl)}

EventIds == {Null, Rep("a", 8), EventGone, EventA}

NoBody == [json |-> FALSE, eventId |-> Null, sheetsUrl |-> JsUndefined]

Bodies ==
    {NoBody} \cup
    {[json |-> TRUE, eventId |-> e, sheetsUrl |-> u] : e \in EventIds, u \in SheetsUrls}

\* A lookup of the guards that the service answers with an error.
LookupErrors == {"none", "user", "role", "event"}

Requests ==
    {[auth |-> a, body |-> b, lookupError |-> l] :
        a \in AuthHeaders, b \in Bodies, l \in LookupErrors}

\* ------------------------------------------------------------------- state

VARIABLES
    store,      \* table -> the rows of the table, in insertion order
    events,     \* the ids in the events table
    user_roles, \* the rows of user_roles: [user_id, role]
    req,        \* the request being served
    pc,         \* where the handler stands
    cur,        \* the entity type (1..3) whose try block is running
    data,       \* the parsed rows of the sheet of the running try block
    items,      \* the records of the running try block, mapped and filtered
    results,    \* the handler's results object
    response,   \* the response sent
    trace,      \* per entity type, what its fetch, delete and insert did
    store0,     \* the store when the request arrived
    world,      \* the spreadsheet and the services, as the handler meets them
    peer,       \* a second invocation of the handler for the same event
    arg,        \* the argument of a call of a helper function
    ret,        \* what the call returned
    editor,     \* handleSync of the event editor
    last_synced_at, \* event id -> the attempt that last wrote the column
    auth_users,     \* the ids of the users of the auth service
    admin_profiles, \* the ids in the admin_profiles table
    creator,        \* an invocation of create-admin-user
    cleaner         \* an invocation of cleanup-orphaned-users

vars == <<store, events, user_roles, req, pc, cur, data, items, results,
          response, trace, store0, world, peer, arg, ret, editor, last_synced_at,
          auth_users, admin_profiles, creator, cleaner>>

\* The state of the administration of users.
admins == <<auth_users, admin_profiles, creator, cleaner>>

\* What the steps of an invocation leave alone: the helper calls studied on
\* their own and the event editor.
aside == <<arg, ret, editor, last_synced_at, auth_users, admin_profiles, creator, cleaner>>

\* What the steps of the invocation under study leave alone.
outside ==
    <<world, peer, arg, ret, editor, last_synced_at, auth_users, admin_profiles, creator, cleaner>>

NoResponse == [status |-> 0, success |-> FALSE, error |-> "", hasResults |-> FALSE]

EmptyResults ==
    [t \in {"program", "participants", "exhibitors"} |-> [count |-> 0, errors |-> <<>>]]

\* The worlds in which the spreadsheet stays as it is and every fetch and
\* every store call that can succeed does.
CalmWorlds ==
    {[calm |-> TRUE, sheets |-> f] :
        f \in [program : Sheets("program"),
               participants : {s \in Sheets("participants") : Len(s) = 1},
               exhibitors : {s \in Sheets("exhibitors") : Len(s) = 1}]}

\* The tables with the rows of an earlier sync, and the handler at rest: no
\* second invocation, no helper call, no click in the editor and neither of
\* the user functions has started.
InitServer ==
    /\ store = [tb \in Tables |-> <<OldRow(tb, EventA), OldRow(tb, EventB)>>]
    /\ events = {EventA, EventB}
    /\ user_roles = {[user_id |-> "admin1", role |-> "admin"],
                     [user_id |-> "super1", role |-> "super_admin"]}
    /\ req = [auth |-> "none", body |-> NoBody, lookupError |-> "none"]
    /\ pc = "idle"
    /\ cur = 1
    /\ data = <<>>
    /\ items = <<>>
    /\ results = EmptyResults
    /\ response = NoResponse
    /\ trace = [t \in DOMAIN EmptyResults |-> [fetch |-> "none", delete |-> "none", insert |-> "none", sent |-> <<>>]]
    /\ store0 = store
    /\ peer = [pc |-> "idle", cur |-> 1, data |-> <<>>, items |-> <<>>, results |-> EmptyResults, sequential |-> FALSE, before |-> [tb \in Tables |-> <<>>], behind |-> [t \in DOMAIN EmptyResults |-> FALSE], overlap |-> [t \in DOMAIN EmptyResults |-> FALSE]]
    /\ arg = [fn |-> "none"]
    /\ ret = [returned |-> FALSE, value |-> Null]
    /\ editor = [pc |-> "idle", google_sheets_url |-> <<>>, syncResult |-> "null", update |-> "none"]
    /\ last_synced_at = [e \in {EventA, EventB} |-> 0]
    /\ auth_users = Users
    /\ admin_profiles = {"admin1", "super1"}
    /\ creator = [pc |-> "idle", user |-> "none", response |-> "none"]
    /\ cleaner = [pc |-> "idle", allAuthUsers |-> {}, profileIds |-> {}, orphanedUsers |-> {}, deletedUsers |-> {}, response |-> "none"]

Init == InitServer /\ world = [calm |-> FALSE, sheets |-> [t \in DOMAIN EmptyResults |-> <<>>]]

InitCalm == InitServer /\ world \in CalmWorlds

\* new Response(JSON.stringify({ success: false, error }), { status })
ErrorResponse(status, message) ==
    [status |-> status, success |-> FALSE, error |-> message, hasResults |-> FALSE]

\* The handler returns a request-level error.
Reject(status, message) ==
    /\ response' = ErrorResponse(status, message)
    /\ pc' = "done"

\* A request arrives at the endpoint.
Arrive ==
    /\ pc = "idle"
    /\ \E r \in Requests : req' = r
    /\ pc' = "start"
    /\ store0' = store
    /\ UNCHANGED <<store, events, user_roles, cur, data, items, results, response, trace>>
    /\ UNCHANGED outside

\* ------------------------------------------------ the guards (part_004)

\* 1. the Authorization header; then auth.getUser(token) is awaited
Authenticate ==
    /\ pc = "start"
    /\ IF req.auth = "none"
       THEN Reject(401, "Missing authorization header")
       ELSE pc' = "getUser" /\ UNCHANGED response
    /\ UNCHANGED <<store, events, user_roles, req, cur, data, items, results, trace, store0>>
    /\ UNCHANGED outside

\* 2. userError || !user; then the user_roles query is awaited
VerifyUser ==
    /\ pc = "getUser"
    /\ IF req.lookupError = "user" \/ req.auth \notin Users
       THEN Reject(401, "Invalid or expired token")
       ELSE pc' = "role" /\ UNCHANGED response
    /\ UNCHANGED <<store, events, user_roles, req, cur, data, items, results, trace, store0>>
    /\ UNCHANGED outside

\* .from('user_roles').select('role').eq('user_id', user.id).eq('role', 'admin')
\* .maybeSingle(): whether a row comes back
HasRoleRow(user, roles) ==
    \E row \in roles : row.user_id = user /\ row.role = "admin"

\* 3. roleError || !roleData; then req.json() is awaited
CheckAdminRole ==
    /\ pc = "role"
    /\ IF req.lookupError = "role" \/ ~HasRoleRow(req.auth, user_roles)
       THEN Reject(403, "Unauthorized - admin role required")
       ELSE pc' = "body" /\ UNCHANGED response
    /\ UNCHANGED <<store, events, user_roles, req, cur, data, items, results, trace, store0>>
    /\ UNCHANGED outside

\* !value of a JSON value
JsFalsy(v) == v.type = "undefined" \/ (v.type = "string" /\ v.val = <<>>)

\* sheetsUrl.match(/^https:\/\/docs\.google\.com\/spreadsheets\/d\/([a-zA-Z0-9-_]+)/)
MatchesSheetsUrl(u) ==
    Len(u) >= 2 /\ u[1] = GoogleSheetsPrefix /\ u[2] \in (Digits \cup {"a", "s", "Z", "-", "_"})

\* The checks of the body with the link looked at before the event id.
BodyCheckUrlFirst(body) ==
    IF JsFalsy(body.sheetsUrl) \/ body.sheetsUrl.type # "string"
    THEN ErrorResponse(400, "Invalid sheets URL")
    ELSE IF ~MatchesSheetsUrl(body.sheetsUrl.val)
    THEN ErrorResponse(400,
             "Invalid Google Sheets URL format. Must be a valid Google Sheets URL.")
    ELSE IF body.eventId = Null \/ body.eventId = <<>> \/ ~IsUuid(body.eventId)
    THEN ErrorResponse(400, "Invalid event ID format")
    ELSE NoResponse

\* 4., 5. the checks of eventId and sheetsUrl: the status and the error
\* message of the first one that fails, status 0 when all pass
BodyCheck(body) ==
    IF body.eventId = Null \/ body.eventId = <<>> \/ ~IsUuid(body.eventId)
    THEN ErrorResponse(400, "Invalid event ID format")
    ELSE IF JsFalsy(body.sheetsUrl) \/ body.sheetsUrl.type # "string"
    THEN ErrorResponse(400, "Invalid sheets URL")
    ELSE IF ~MatchesSheetsUrl(body.sheetsUrl.val)
    THEN ErrorResponse(400,
             "Invalid Google Sheets URL format. Must be a valid Google Sheets URL.")
    ELSE NoResponse

\* A handler that answers a body that is no JSON as it answers a malformed
\* eventId.
ValidateBodyLenient ==
    /\ pc = "body"
    /\ IF ~req.body.json
       THEN Reject(400, "Invalid event ID format")
       ELSE IF BodyCheck(req.body).status # 0
       THEN response' = BodyCheck(req.body) /\ pc' = "done"
       ELSE pc' = "event" /\ UNCHANGED response
    /\ UNCHANGED <<store, events, user_roles, req, cur, data, items, results, trace, store0>>
    /\ UNCHANGED outside

\* req.json() has settled: a body that is no JSON throws to the outer catch;
\* then the checks of the body; then the events query is awaited
ValidateBody ==
    /\ pc = "body"
    /\ IF ~req.body.json
       THEN Reject(500, "Unexpected token in JSON")
       ELSE IF BodyCheck(req.body).status # 0
       THEN response' = BodyCheck(req.body) /\ pc' = "done"
       ELSE pc' = "event" /\ UNCHANGED response
    /\ UNCHANGED <<store, events, user_roles, req, cur, data, items, results, trace, store0>>
    /\ UNCHANGED outside

\* A handler that clears the program items before it looks the event up.
VerifyEventAfterDelete ==
    /\ pc = "event"
    /\ store' = [store EXCEPT !["program_items"] = RowsAfterDelete(@, req.body.eventId)]
    /\ trace' = [trace EXCEPT !["program"].delete = "ok"]
    /\ IF req.lookupError = "event" \/ req.body.eventId \notin events
       THEN Reject(404, "Event not found or access denied") /\ UNCHANGED <<cur, results>>
       ELSE /\ pc' = "fetch"
            /\ cur' = 1
            /\ results' = EmptyResults
            /\ UNCHANGED response
    /\ UNCHANGED <<events, user_roles, req, data, items, store0>>
    /\ UNCHANGED outside

\* 6. eventError || !eventData; then the results object is made and the
\* Program sheet is fetched
VerifyEvent ==
    /\ pc = "event"
    /\ IF req.lookupError = "event" \/ req.body.eventId \notin events
       THEN Reject(404, "Event not found or access denied") /\ UNCHANGED <<cur, results>>
       ELSE /\ pc' = "fetch"
            /\ cur' = 1
            /\ results' = EmptyResults
            /\ UNCHANGED response
    /\ UNCHANGED <<store, events, user_roles, req, data, items, trace, store0>>
    /\ UNCHANGED outside

\* ------------------------------------- the three try blocks (part_004)

Entity == EntityTypes[cur]

\* Where control goes when the try block of entity type number c ends, by its
\* last statement or by its catch: to the next try block, or to the response.
AfterTry(c) ==
    IF c < 3 THEN [pc |-> "fetch", cur |-> c + 1] ELSE [pc |-> "respond", cur |-> c]

\* A catch that gives up on the entity types that are left.
AfterCatchAbort(c) == [pc |-> "respond", cur |-> c]

\* Where control goes when the catch of entity type number c has run: the
\* catch does not rethrow, so to the same place as after the try block.
AfterCatch(c) == AfterTry(c)

\* A catch block that pushes the message to the errors of every entity type.
CaughtEverywhere(message) ==
    /\ results' = [t \in DOMAIN results |->
                      [results[t] EXCEPT !.errors = Append(@, message)]]
    /\ pc' = AfterCatch(cur).pc
    /\ cur' = AfterCatch(cur).cur
    /\ data' = <<>>
    /\ items' = <<>>

\* catch (e) { results.<entity>.errors.push(e.message) }
Caught(message) ==
    /\ results' = [results EXCEPT ![Entity].errors = Append(@, message)]
    /\ pc' = AfterCatch(cur).pc
    /\ cur' = AfterCatch(cur).cur
    /\ data' = <<>>
    /\ items' = <<>>

\* What the awaited fetch can settle to: a rejection (the 30 s abort signal, a
\* network failure) or a response with its ok flag and content-length header.
FetchResults ==
    {[settled |-> "rejected", ok |-> FALSE, hasLength |-> FALSE, contentLength |-> 0]}
    \cup
    {[settled |-> "response", ok |-> FALSE, hasLength |-> FALSE, contentLength |-> 0]}
    \cup
    {[settled |-> "response", ok |-> TRUE, hasLength |-> h, contentLength |-> n] :
        h \in BOOLEAN, n \in {MAX_FILE_SIZE, MAX_FILE_SIZE + 1}}

\* What the awaited fetch settles to in the world as it is.
FetchNow ==
    IF world.calm
    THEN {[settled |-> "response", ok |-> TRUE, hasLength |-> FALSE, contentLength |-> 0]}
    ELSE FetchResults

\* What came back from the fetch, as the history records it: the kind of
\* failure, "declared" for a content-length above 10485760 bytes, "headers"
\* for a response the pipeline can go on with.
FetchFact(r) ==
    IF r.settled = "rejected" THEN "timeout"
    ELSE IF ~r.ok THEN "http"
    ELSE IF r.hasLength /\ r.contentLength > 10485760 THEN "declared"
    ELSE "headers"

\* const contentLength = res.headers.get('content-length');
\* if (contentLength && parseInt(contentLength) > MAX_FILE_SIZE)
DeclaredTooLarge(r) == r.hasLength /\ r.contentLength > MAX_FILE_SIZE

\* A pipeline that clears the rows of the event before it looks at what the
\* fetch gave.
FetchSheetAfterDelete ==
    /\ pc = "fetch"
    /\ store' = [store EXCEPT ![TableOf(Entity)] = RowsAfterDelete(@, req.body.eventId)]
    /\ \E r \in FetchNow :
         /\ trace' = [trace EXCEPT ![Entity].fetch = FetchFact(r)]
         /\ IF r.settled = "rejected" THEN
                 Caught(<<"The signal has been aborted">>)
            ELSE IF ~r.ok THEN
                 Caught(<<"Failed to fetch", SheetOf(Entity), "sheet:", "Not Found">>)
            ELSE IF DeclaredTooLarge(r) THEN
                 Caught(<<SheetOf(Entity), "sheet exceeds maximum file size (10MB)">>)
            ELSE /\ pc' = "text"
                 /\ UNCHANGED <<cur, data, items, results>>
    /\ UNCHANGED <<events, user_roles, req, response, store0>>
    /\ UNCHANGED outside

\* The fetch of the sheet settles; the checks of ok and content-length; then
\* res.text() is awaited.
FetchSheet ==
    /\ pc = "fetch"
    /\ \E r \in FetchNow :
         /\ trace' = [trace EXCEPT ![Entity].fetch = FetchFact(r)]
         /\ IF r.settled = "rejected" THEN
                 Caught(<<"The signal has been aborted">>)
            ELSE IF ~r.ok THEN
                 Caught(<<"Failed to fetch", SheetOf(Entity), "sheet:", "Not Found">>)
            ELSE IF DeclaredTooLarge(r) THEN
                 Caught(<<SheetOf(Entity), "sheet exceeds maximum file size (10MB)">>)
            ELSE /\ pc' = "text"
                 /\ UNCHANGED <<cur, data, items, results>>
    /\ UNCHANGED <<store, events, user_roles, req, response, store0>>
    /\ UNCHANGED outside

\* What the awaited res.text() can settle to, as the CSV parser reads it: a
\* rejection, or a text of some length whose parse has dataLength rows, of
\* which rows are the first ones (all of them unless the sheet is over the limit).
TextResults(t) ==
    {[settled |-> "rejected", length |-> 0, rows |-> <<>>, dataLength |-> 0]}
    \cup
    {[settled |-> "text", length |-> n, rows |-> s, dataLength |-> Len(s)] :
        n \in {MAX_FILE_SIZE, MAX_FILE_SIZE + 1}, s \in Sheets(t)}
    \cup
    {[settled |-> "text", length |-> MAX_FILE_SIZE, rows |-> s, dataLength |-> MAX_ROWS + 1] :
        s \in Sheets(t)}

\* What the awaited res.text() settles to in the world as it is.
TextNow(t) ==
    IF world.calm
    THEN {[settled |-> "text", length |-> MAX_FILE_SIZE, rows |-> world.sheets[t],
           dataLength |-> Len(world.sheets[t])]}
    ELSE TextResults(t)

\* What came back as the text, as the history records it: "text" for a text
\* of more than 10485760 bytes, "rows" for more than 10000 data rows, "ok"
\* for a sheet within both limits.
TextFact(body) ==
    IF body.settled = "rejected" THEN "timeout"
    ELSE IF body.length > 10485760 THEN "text"
    ELSE IF body.dataLength > 10000 THEN "rows"
    ELSE "ok"

\* A handler that goes on with the first rows of a sheet that is too long.
RowLimitNever(body) == FALSE

\* if (csvText.length > MAX_FILE_SIZE)
TextTooLarge(body) == body.length > MAX_FILE_SIZE

\* if (parsed.data.length > MAX_ROWS)
RowLimitExceeded(body) == body.dataLength > MAX_ROWS

\* res.text() settles; the checks of the size and of the row count; then the
\* delete is awaited.
ReadSheet ==
    /\ pc = "text"
    /\ \E body \in TextNow(Entity) :
         /\ trace' = [trace EXCEPT ![Entity].fetch = TextFact(body)]
         /\ IF body.settled = "rejected" THEN
                 Caught(<<"The signal has been aborted">>)
            ELSE IF TextTooLarge(body) THEN
                 Caught(<<SheetOf(Entity), "sheet exceeds maximum file size (10MB)">>)
            ELSE IF RowLimitExceeded(body) THEN
                 Caught(<<SheetOf(Entity), "sheet exceeds maximum row count">> \o ToDecimal(MAX_ROWS))
            ELSE /\ data' = body.rows
                 /\ pc' = "delete"
                 /\ UNCHANGED <<cur, items, results>>
    /\ UNCHANGED <<store, events, user_roles, req, response, store0>>
    /\ UNCHANGED outside

\* The results a store call has in the world as it is, out of those it can have.
StoreNow(outcomes) ==
    IF world.calm /\ "ok" \in outcomes THEN {"ok"} ELSE outcomes

\* await supabase.from(table).delete().eq('event_id', eventId) settles (its
\* result is dropped); the rows are mapped and filtered; the insert is awaited.
DeleteRows ==
    /\ pc = "delete"
    /\ \E out \in StoreNow(DeleteOutcomes(req.body.eventId)) :
         /\ store' = IF out = "ok"
                     THEN [store EXCEPT ![TableOf(Entity)] =
                               RowsAfterDelete(@, req.body.eventId)]
                     ELSE store
         /\ trace' = [trace EXCEPT ![Entity].delete = out]
    /\ items' = RecordsOf(Entity, data, req.body.eventId)
    /\ pc' = "insert"
    /\ UNCHANGED <<events, user_roles, req, cur, data, results, response, store0>>
    /\ UNCHANGED outside

\* An insert inside a transaction with the delete: when it fails the rows of
\* the table are what they were when the request arrived.
InsertRowsRestoring ==
    /\ pc = "insert"
    /\ \E out \in StoreNow(InsertOutcomes(TableOf(Entity), items, events)) :
         /\ trace' = [trace EXCEPT ![Entity].insert = out, ![Entity].sent = items]
         /\ IF out = "ok" THEN
                 /\ store' = [store EXCEPT ![TableOf(Entity)] = @ \o items]
                 /\ results' = [results EXCEPT ![Entity].count = Len(items)]
                 /\ pc' = AfterTry(cur).pc
                 /\ cur' = AfterTry(cur).cur
                 /\ data' = <<>>
                 /\ items' = <<>>
            ELSE /\ Caught(<<"insert into", TableOf(Entity), "failed">>)
                 /\ store' = [store EXCEPT ![TableOf(Entity)] = store0[TableOf(Entity)]]
    /\ UNCHANGED <<events, user_roles, req, response, store0>>
    /\ UNCHANGED outside

\* await supabase.from(table).insert(items) settles: if (error) throw error,
\* else the count is set and the try block ends.
InsertRows ==
    /\ pc = "insert"
    /\ \E out \in StoreNow(InsertOutcomes(TableOf(Entity), items, events)) :
         /\ trace' = [trace EXCEPT ![Entity].insert = out, ![Entity].sent = items]
         /\ IF out = "ok" THEN
                 /\ store' = [store EXCEPT ![TableOf(Entity)] = @ \o items]
                 /\ results' = [results EXCEPT ![Entity].count = Len(items)]
                 /\ pc' = AfterTry(cur).pc
                 /\ cur' = AfterTry(cur).cur
                 /\ data' = <<>>
                 /\ items' = <<>>
            ELSE /\ Caught(<<"insert into", TableOf(Entity), "failed">>)
                 /\ UNCHANGED store
    /\ UNCHANGED <<events, user_roles, req, response, store0>>
    /\ UNCHANGED outside

\* A response whose top-level success tells whether every entity type synced.
RespondPartialFailure ==
    /\ pc = "respond"
    /\ response' = [status |-> 200,
                    success |-> \A t \in DOMAIN results : results[t].errors = <<>>,
                    error |-> "", hasResults |-> TRUE]
    /\ pc' = "done"
    /\ UNCHANGED <<store, events, user_roles, req, cur, data, items, results, trace, store0>>
    /\ UNCHANGED outside

\* return new Response(JSON.stringify({ success: true, results, timestamp }))
Respond ==
    /\ pc = "respond"
    /\ response' = [status |-> 200, success |-> TRUE, error |-> "", hasResults |-> TRUE]
    /\ pc' = "done"
    /\ UNCHANGED <<store, events, user_roles, req, cur, data, items, results, trace, store0>>
    /\ UNCHANGED outside

\* ------------------- two invocations for one event, in a calm world

\* The request of the admin arrives at the endpoint.
ArriveCalm ==
    /\ pc = "idle"
    /\ world.calm
    /\ req' = [auth |-> "admin1", body |-> [json |-> TRUE, eventId |-> EventA, sheetsUrl |-> JsString(GoodUrl)], lookupError |-> "none"]
    /\ pc' = "start"
    /\ store0' = store
    /\ UNCHANGED <<store, events, user_roles, cur, data, items, results, response, trace>>
    /\ UNCHANGED outside

handler == <<events, user_roles, req, pc, cur, data, items, results, response,
             trace, store0>>

PeerEntity == EntityTypes[peer.cur]

\* The same request arrives a second time, when the first invocation has
\* passed its guards or has answered; the second invocation passes the same
\* guards (they write nothing) and makes its results object.
PeerStart ==
    /\ world.calm
    /\ peer.pc = "idle"
    /\ \/ pc \in {"fetch", "text", "delete", "insert", "respond"}
       \/ pc = "done" /\ response.status = 200
    /\ peer' = [peer EXCEPT !.pc = "read", !.cur = 1, !.results = EmptyResults,
                            !.sequential = (pc = "done"), !.before = store]
    /\ UNCHANGED <<store, world>>
    /\ UNCHANGED aside
    /\ UNCHANGED handler

\* The fetch and res.text() of the second invocation settle, the sheet is
\* parsed and is within the limits; then the delete is awaited.
PeerRead ==
    /\ peer.pc = "read"
    /\ \E r \in FetchNow, body \in TextNow(PeerEntity) :
         /\ r.ok /\ ~DeclaredTooLarge(r)
         /\ ~TextTooLarge(body) /\ ~RowLimitExceeded(body)
         /\ peer' = [peer EXCEPT !.pc = "delete", !.data = body.rows]
    /\ UNCHANGED <<store, world>>
    /\ UNCHANGED aside
    /\ UNCHANGED handler

\* The delete of the second invocation settles; its rows are mapped and
\* filtered; then the insert is awaited. behind: the first invocation had
\* already inserted its rows of this entity type.
PeerDelete ==
    /\ peer.pc = "delete"
    /\ \E out \in StoreNow(DeleteOutcomes(req.body.eventId)) :
         store' = IF out = "ok"
                  THEN [store EXCEPT ![TableOf(PeerEntity)] =
                            RowsAfterDelete(@, req.body.eventId)]
                  ELSE store
    /\ peer' = [peer EXCEPT !.pc = "insert",
                            !.items = RecordsOf(PeerEntity, peer.data, req.body.eventId),
                            !.behind[PeerEntity] = (trace[PeerEntity].insert # "none")]
    /\ UNCHANGED world
    /\ UNCHANGED aside
    /\ UNCHANGED handler

\* Where the second invocation goes when a try block ends.
PeerAfterTry(c) ==
    IF c < 3 THEN [pc |-> "read", cur |-> c + 1] ELSE [pc |-> "done", cur |-> c]

\* An insert that replaces the rows of the event that are in the table.
PeerInsertReplacing ==
    /\ peer.pc = "insert"
    /\ \E out \in StoreNow(InsertOutcomes(TableOf(PeerEntity), peer.items, events)) :
         /\ store' = IF out = "ok"
                     THEN [store EXCEPT ![TableOf(PeerEntity)] =
                               RowsAfterDelete(@, req.body.eventId) \o peer.items]
                     ELSE store
         /\ peer' = [peer EXCEPT
                !.pc = PeerAfterTry(peer.cur).pc,
                !.cur = PeerAfterTry(peer.cur).cur,
                !.data = <<>>,
                !.items = <<>>,
                !.results[PeerEntity] =
                    IF out = "ok" THEN [@ EXCEPT !.count = Len(peer.items)]
                    ELSE [@ EXCEPT !.errors =
                              Append(@, <<"insert into", TableOf(PeerEntity), "failed">>)],
                !.overlap[PeerEntity] =
                    ~peer.behind[PeerEntity] /\ trace[PeerEntity].delete # "none"]
    /\ UNCHANGED world
    /\ UNCHANGED aside
    /\ UNCHANGED handler

\* The insert of the second invocation settles: the count is set, or the
\* error is caught; the try block ends. overlap: the delete of the first
\* invocation came before this insert and its insert after this
\* invocation's delete.
PeerInsert ==
    /\ peer.pc = "insert"
    /\ \E out \in StoreNow(InsertOutcomes(TableOf(PeerEntity), peer.items, events)) :
         /\ store' = IF out = "ok"
                     THEN [store EXCEPT ![TableOf(PeerEntity)] = @ \o peer.items]
                     ELSE store
         /\ peer' = [peer EXCEPT
                !.pc = PeerAfterTry(peer.cur).pc,
                !.cur = PeerAfterTry(peer.cur).cur,
                !.data = <<>>,
                !.items = <<>>,
                !.results[PeerEntity] =
                    IF out = "ok" THEN [@ EXCEPT !.count = Len(peer.items)]
                    ELSE [@ EXCEPT !.errors =
                              Append(@, <<"insert into", TableOf(PeerEntity), "failed">>)],
                !.overlap[PeerEntity] =
                    ~peer.behind[PeerEntity] /\ trace[PeerEntity].delete # "none"]
    /\ UNCHANGED world
    /\ UNCHANGED aside
    /\ UNCHANGED handler

NextPair ==
    \/ ArriveCalm
    \/ Authenticate
    \/ VerifyUser
    \/ CheckAdminRole
    \/ ValidateBody
    \/ VerifyEvent
    \/ FetchSheet
    \/ ReadSheet
    \/ DeleteRows
    \/ InsertRows
    \/ Respond
    \/ PeerStart
    \/ PeerRead
    \/ PeerDelete
    \/ PeerInsert

SpecPair == InitCalm /\ [][NextPair]_vars

\* ------------------------------------- the helper functions on their own

NotADate == <<"n", "o", "t", "-", "a", "-", "d", "a", "t", "e">>

\* The calls of parseFlexibleDate: a trimmed text, with the form it was
\* written in and the parts it was written from.
DateCalls ==
    {[fn |-> "parseFlexibleDate", form |-> "dayFirst", text |-> d \o <<s1>> \o m \o <<s2>> \o <<"2", "0", "2", "6">>,
      day |-> d, month |-> m, year |-> <<"2", "0", "2", "6">>] :
        d \in {<<"3">>, <<"0", "3">>, <<"1", "5">>, <<"9", "9">>}, m \in {<<"4">>, <<"0", "4">>, <<"0", "3">>, <<"1", "3">>}, s1 \in DateSeps, s2 \in DateSeps}
    \cup
    {[fn |-> "parseFlexibleDate",
      form |-> IF s1 = "-" /\ s2 = "-" /\ Len(m) = 2 /\ Len(d) = 2
               THEN "iso" ELSE "yearFirst",
      text |-> <<"2", "0", "2", "6">> \o <<s1>> \o m \o <<s2>> \o d,
      day |-> d, month |-> m, year |-> <<"2", "0", "2", "6">>] :
        d \in {<<"3">>, <<"0", "3">>, <<"1", "5">>, <<"9", "9">>}, m \in {<<"4">>, <<"0", "4">>, <<"0", "3">>, <<"1", "3">>}, s1 \in DateSeps, s2 \in DateSeps}
    \cup
    {[fn |-> "parseFlexibleDate", form |-> "other", text |-> t,
      day |-> <<>>, month |-> <<>>, year |-> <<>>] :
        t \in {<<>>, Null, NotADate}}

\* The calls of parseFlexibleTime.
TimeCalls ==
    {[fn |-> "parseFlexibleTime", form |-> f[1], text |-> h \o f[2] \o mi \o f[3],
      hour |-> h, minute |-> mi] :
        h \in {<<"9">>, <<"0", "9">>, <<"2", "3">>, <<"2", "5">>, <<"9", "9">>}, mi \in {<<"3", "0">>, <<"0", "5">>, <<"0", "0">>, <<"7", "5">>, <<"9", "9">>},
        f \in {<<"colon", <<":">>, <<>>>>, <<"dot", <<".">>, <<>>>>,
               <<"digits", <<>>, <<>>>>,
               <<"seconds", <<":">>, <<":", "0", "0">>>>,
               <<"seconds", <<":">>, <<":", "5", "9">>>>}}
    \cup
    {[fn |-> "parseFlexibleTime", form |-> "other", text |-> t,
      hour |-> <<>>, minute |-> <<>>] : t \in {<<>>, Null, <<"9", ":", "3">>, <<"9", "-", "3", "0">>, <<"9", "3">>, <<"1", "2", "3", "4", "5">>, <<"9", ":", "3", "0", ":", "0">>, <<"9", ".", "3", "0", ".", "0", "0">>, <<"a", "b", "c">>, <<"9", ":", "3", "0", " ", "p", "m">>}}

March15 == <<"1", "5", ".", "0", "3", ".", "2", "0", "2", "6">>

\* The category column of program_items (text, nullable, no default), read
\* from a stored row: null for a row that was inserted without a value.
CategoryOf(row) == IF "category" \in DOMAIN row THEN row.category ELSE Null

\* The columns of a Program row besides its day and its title.
ProgramRest == [start |-> <<"9", ".", "3", "0">>]

Apning == <<"A", "p", "n", "i", "n", "g">>

\* The calls of the map and filter of a sheet of one row: rows whose day is
\* in two columns, aliases of each other, and rows whose headers are written
\* in another letter case than the alias.
RecordCalls ==
    LET
        \* The column of the required text field of an entity type.
        RequiredHeader(t) ==
            CASE t = "program" -> "tittel"
              [] t = "participants" -> "navn"
              [] t = "exhibitors" -> "bedriftsnavn"
        \* A header of a sheet, and the alias it is written as up to letter case.
        HeadersOf(t) ==
            CASE t = "day" ->
                   {<<"dag", "dag">>, <<"Dag", "Dag">>, <<"day", "day">>, <<"Day", "Day">>,
                    <<"DAG", "dag">>, <<"dAg", "dag">>, <<"DAY", "day">>}
              [] t = "program" ->
                   {<<"tittel", "tittel">>, <<"Title", "Title">>, <<"TITTEL", "tittel">>,
                    <<"TITLE", "title">>}
              [] t = "participants" ->
                   {<<"navn", "navn">>, <<"Name", "Name">>, <<"NAVN", "navn">>,
                    <<"NAME", "name">>}
              [] t = "exhibitors" ->
                   {<<"bedriftsnavn", "bedriftsnavn">>, <<"Company", "Company">>,
                    <<"BEDRIFTSNAVN", "bedriftsnavn">>, <<"COMPANY", "company">>}
    IN
    {[fn |-> "RecordsOf", entity |-> "program", field |-> "day",
      aliases |-> hh, header |-> hh[1],
      data |-> <<(hh[1] :> c1) @@ (hh[2] :> c2) @@ [tittel |-> Apning] @@ ProgramRest>>,
      aliasData |-> <<(hh[1] :> c1) @@ (hh[2] :> c2) @@ [tittel |-> Apning] @@ ProgramRest>>] :
        hh \in {<<"dag", "Dag">>, <<"dag", "Day">>, <<"day", "Day">>},
        c1 \in {<<>>, <<" ">>, March15, <<"1", "6", ".", "0", "3", ".", "2", "0", "2", "6">>}, c2 \in {<<>>, <<" ">>, March15, <<"1", "6", ".", "0", "3", ".", "2", "0", "2", "6">>}}
    \cup
    {[fn |-> "RecordsOf", entity |-> "program", field |-> "day",
      aliases |-> <<h[2]>>, header |-> h[1],
      data |-> <<(h[1] :> c) @@ [tittel |-> Apning] @@ ProgramRest>>,
      aliasData |-> <<(h[2] :> c) @@ [tittel |-> Apning] @@ ProgramRest>>] :
        h \in HeadersOf("day"), c \in {March15, <<"9", "9", ".", "0", "3", ".", "2", "0", "2", "6">>}}
    \cup
    UNION {
    {[fn |-> "RecordsOf", entity |-> t, field |-> "name",
      aliases |-> <<h[2]>>, header |-> h[1],
      data |-> <<(h[1] :> Apning) @@ (IF t = "program" THEN [dag |-> March15] @@ ProgramRest
                                     ELSE [stand |-> <<"7">>])>>,
      aliasData |-> <<(h[2] :> Apning) @@ (IF t = "program" THEN [dag |-> March15] @@ ProgramRest
                                          ELSE [stand |-> <<"7">>])>>] :
        h \in HeadersOf(t)} : t \in {"program", "participants", "exhibitors"}}
    \cup
    UNION {
    {[fn |-> "RecordsOf", entity |-> t, field |-> "required",
      aliases |-> <<RequiredHeader(t)>>, header |-> RequiredHeader(t),
      data |-> <<(RequiredHeader(t) :> v)
                   @@ (IF t = "program" THEN [dag |-> March15] @@ ProgramRest
                       ELSE [stand |-> <<"7">>])>>,
      aliasData |-> <<(RequiredHeader(t) :> v)
                        @@ (IF t = "program" THEN [dag |-> March15] @@ ProgramRest
                            ELSE [stand |-> <<"7">>])>>] :
        v \in {<<>>, Apning, Untitled, Unknown, UnknownCompany}} :
            t \in {"program", "participants", "exhibitors"}}
    \cup
    {[fn |-> "RecordsOf", entity |-> "program", field |-> "category",
      aliases |-> <<"category">>, header |-> "category",
      data |-> <<[category |-> c, dag |-> March15, tittel |-> Apning] @@ ProgramRest>>,
      aliasData |-> <<[category |-> c, dag |-> March15, tittel |-> Apning] @@ ProgramRest>>] :
        c \in {<<>>, <<"F", "a", "g">>, <<"F", "a", "g", ",", " ", "T", "u", "r">>}}
    \cup
    {[fn |-> "RecordsOf", entity |-> "program", field |-> "category",
      aliases |-> <<"category">>, header |-> "none",
      data |-> <<[dag |-> March15, tittel |-> Apning] @@ ProgramRest>>,
      aliasData |-> <<[dag |-> March15, tittel |-> Apning] @@ ProgramRest>>]}

\* A helper function is called.
Call ==
    /\ arg = [fn |-> "none"]
    /\ arg' \in (DateCalls \cup TimeCalls \cup RecordCalls)
    /\ UNCHANGED <<store, world, peer, ret, editor, last_synced_at>>
    /\ UNCHANGED admins
    /\ UNCHANGED handler

ReturnDate ==
    /\ arg.fn = "parseFlexibleDate" /\ ~ret.returned
    /\ ret' = [returned |-> TRUE, value |-> parseFlexibleDate(arg.text)]
    /\ UNCHANGED <<store, world, peer, arg, editor, last_synced_at>>
    /\ UNCHANGED admins
    /\ UNCHANGED handler

ReturnTime ==
    /\ arg.fn = "parseFlexibleTime" /\ ~ret.returned
    /\ ret' = [returned |-> TRUE, value |-> parseFlexibleTime(arg.text)]
    /\ UNCHANGED <<store, world, peer, arg, editor, last_synced_at>>
    /\ UNCHANGED admins
    /\ UNCHANGED handler

ReturnRecords ==
    /\ arg.fn = "RecordsOf" /\ ~ret.returned
    /\ ret' = [returned |-> TRUE, value |-> RecordsOf(arg.entity, arg.data, EventA)]
    /\ UNCHANGED <<store, world, peer, arg, editor, last_synced_at>>
    /\ UNCHANGED admins
    /\ UNCHANGED handler

\* parseFlexibleDate is called again, on the date it returned.
ReturnDateAgain ==
    /\ arg.fn = "parseFlexibleDate" /\ ret.returned
    /\ ret.value # Null /\ "again" \notin DOMAIN ret
    /\ ret' = [returned |-> TRUE, value |-> ret.value,
               again |-> parseFlexibleDate(ret.value)]
    /\ UNCHANGED <<store, world, peer, arg, editor, last_synced_at>>
    /\ UNCHANGED admins
    /\ UNCHANGED handler

\* parseFlexibleTime is called again, on the time it returned.
ReturnTimeAgain ==
    /\ arg.fn = "parseFlexibleTime" /\ ret.returned
    /\ ret.value # Null /\ "again" \notin DOMAIN ret
    /\ ret' = [returned |-> TRUE, value |-> ret.value,
               again |-> parseFlexibleTime(ret.value)]
    /\ UNCHANGED <<store, world, peer, arg, editor, last_synced_at>>
    /\ UNCHANGED admins
    /\ UNCHANGED handler

NextCalls ==
    \/ Call
    \/ ReturnDate
    \/ ReturnTime
    \/ ReturnRecords
    \/ ReturnDateAgain
    \/ ReturnTimeAgain

SpecCalls == Init /\ [][NextCalls]_vars

\* ------------------------------------------- handleSync (EventEditor.tsx)

\* checkAdminRole of the AuthContext: isAdmin is set for a user with a
\* user_roles row whose role is super_admin or regional_admin.
isAdmin(userId) ==
    \E row \in user_roles :
        row.user_id = userId /\ row.role \in {"super_admin", "regional_admin"}

\* The database function is_admin(), for auth.uid() = userId.
is_admin(userId) ==
    \E row \in user_roles :
        row.user_id = userId /\ row.role \in {"admin", "super_admin", "regional_admin"}

\* if (!formData.google_sheets_url) { toast.error(...); return; }
\* otherwise supabase.functions.invoke('sync-sheets', { body }): the request
\* arrives at the endpoint with the session the editor has.
EditorClick ==
    /\ editor.pc = "idle" /\ pc = "idle"
    /\ \E url \in {<<>>, OtherUrl, GoodUrl}, a \in AuthHeaders, l \in LookupErrors :
         IF url = <<>>
         THEN /\ editor' = [editor EXCEPT !.pc = "done", !.google_sheets_url = url]
              /\ UNCHANGED <<req, pc, store0>>
         ELSE /\ editor' = [editor EXCEPT !.pc = "invoking", !.google_sheets_url = url,
                                          !.syncResult = "null"]
              /\ req' = [auth |-> a,
                         body |-> [json |-> TRUE, eventId |-> EventA,
                                   sheetsUrl |-> JsString(url)],
                         lookupError |-> l]
              /\ pc' = "start"
              /\ store0' = store
    /\ UNCHANGED <<store, events, user_roles, cur, data, items, results, response, trace>>
    /\ UNCHANGED <<world, peer, arg, ret, last_synced_at>>
    /\ UNCHANGED admins

\* const { data, error } = await invoke(...); if (error) throw error;
\* setSyncResult(data): a response that is not 2xx is an error, and the catch
\* block sets the failure as the sync result.
EditorReceive ==
    /\ editor.pc = "invoking" /\ pc = "done"
    /\ editor' = IF response.status = 200
                 THEN [editor EXCEPT !.pc = "updating", !.syncResult = "data"]
                 ELSE [editor EXCEPT !.pc = "done", !.syncResult = "failure"]
    /\ UNCHANGED <<world, peer, arg, ret, last_synced_at>>
    /\ UNCHANGED admins
    /\ UNCHANGED <<store, events, user_roles, req, pc, cur, data, items, results,
                   response, trace, store0>>

\* await supabase.from('events').update({ last_synced_at }).eq('id', id);
\* the result of the update is not inspected.
EditorUpdate ==
    /\ editor.pc = "updating"
    /\ \E outcome \in {"ok", "error"} :
         /\ last_synced_at' = IF outcome = "ok"
                              THEN [last_synced_at EXCEPT ![EventA] = @ + 1]
                              ELSE last_synced_at
         /\ editor' = [editor EXCEPT !.pc = "done", !.update = outcome]
    /\ UNCHANGED <<world, peer, arg, ret>>
    /\ UNCHANGED admins
    /\ UNCHANGED <<store, events, user_roles, req, pc, cur, data, items, results,
                   response, trace, store0>>

NextEditor ==
    \/ EditorClick
    \/ Authenticate
    \/ VerifyUser
    \/ CheckAdminRole
    \/ ValidateBody
    \/ VerifyEvent
    \/ FetchSheet
    \/ ReadSheet
    \/ DeleteRows
    \/ InsertRows
    \/ Respond
    \/ EditorReceive
    \/ EditorUpdate

SpecEditor == Init /\ [][NextEditor]_vars

\* ------------------- create-admin-user and cleanup-orphaned-users

\* What the functions that administer users leave alone.
syncing == <<store, events, req, pc, cur, data, items, results, response, trace,
             store0, world, peer, arg, ret, editor, last_synced_at>>

\* The id the auth service gives the user that create-admin-user creates.
NewUser == "new1"

\* The results a call of the auth service or of the store can have when
\* nothing but a failure of the call itself stands in its way.
CallOutcomes == {"ok", "error"}

\* The results of a call that needs the auth user id to exist: a deleteUser
\* of id, or an insert of a row that references auth.users(id).
OutcomesFor(id) == IF id \in auth_users THEN CallOutcomes ELSE {"error"}

\* auth.admin.deleteUser(id) succeeds: the user is gone, and with it, ON
\* DELETE CASCADE, its admin_profiles row and its user_roles rows.
DeletedUser(id) ==
    /\ auth_users' = auth_users \ {id}
    /\ admin_profiles' = admin_profiles \ {id}
    /\ user_roles' = {row \in user_roles : row.user_id # id}

\* create-admin-user is invoked: the header, the user, is_super_admin and the
\* fields of the body are checked; a failed check is thrown to the catch.
CreatorInvoke ==
    /\ creator.pc = "idle"
    /\ \E passes \in BOOLEAN :
         creator' = IF passes THEN [creator EXCEPT !.pc = "createUser"]
                    ELSE [creator EXCEPT !.pc = "done", !.response = "error"]
    /\ UNCHANGED <<auth_users, admin_profiles, user_roles, cleaner>>
    /\ UNCHANGED syncing

\* auth.admin.createUser settles.
CreateUser ==
    /\ creator.pc = "createUser"
    /\ \E out \in CallOutcomes :
         IF out = "ok"
         THEN /\ auth_users' = auth_users \cup {NewUser}
              /\ creator' = [creator EXCEPT !.pc = "profile", !.user = NewUser]
         ELSE /\ creator' = [creator EXCEPT !.pc = "done", !.response = "error"]
              /\ UNCHANGED auth_users
    /\ UNCHANGED <<admin_profiles, user_roles, cleaner>>
    /\ UNCHANGED syncing

\* The insert into admin_profiles settles.
InsertProfile ==
    /\ creator.pc = "profile"
    /\ \E out \in OutcomesFor(creator.user) :
         IF out = "ok"
         THEN /\ admin_profiles' = admin_profiles \cup {creator.user}
              /\ creator' = [creator EXCEPT !.pc = "role"]
         ELSE /\ creator' = [creator EXCEPT !.pc = "rollbackProfile"]
              /\ UNCHANGED admin_profiles
    /\ UNCHANGED <<auth_users, user_roles, cleaner>>
    /\ UNCHANGED syncing

\* Rollback of a failed profile insert: deleteUser settles, its result is not
\* inspected, and the profile error is thrown.
RollbackProfile ==
    /\ creator.pc = "rollbackProfile"
    /\ \E out \in OutcomesFor(creator.user) :
         IF out = "ok" THEN DeletedUser(creator.user)
         ELSE UNCHANGED <<auth_users, admin_profiles, user_roles>>
    /\ creator' = [creator EXCEPT !.pc = "done", !.response = "error"]
    /\ UNCHANGED cleaner
    /\ UNCHANGED syncing

\* The insert into user_roles settles; on success the response is returned.
InsertRole ==
    /\ creator.pc = "role"
    /\ \E out \in OutcomesFor(creator.user) :
         IF out = "ok"
         THEN /\ user_roles' = user_roles \cup
                                  {[user_id |-> creator.user, role |-> "regional_admin"]}
              /\ creator' = [creator EXCEPT !.pc = "done", !.response = "success"]
         ELSE /\ creator' = [creator EXCEPT !.pc = "rollbackUser"]
              /\ UNCHANGED user_roles
    /\ UNCHANGED <<auth_users, admin_profiles, cleaner>>
    /\ UNCHANGED syncing

\* Rollback of a failed role insert, first call: deleteUser settles, its
\* result is not inspected.
RollbackUser ==
    /\ creator.pc = "rollbackUser"
    /\ \E out \in OutcomesFor(creator.user) :
         IF out = "ok" THEN DeletedUser(creator.user)
         ELSE UNCHANGED <<auth_users, admin_profiles, user_roles>>
    /\ creator' = [creator EXCEPT !.pc = "rollbackProfileRow"]
    /\ UNCHANGED cleaner
    /\ UNCHANGED syncing

\* Rollback of a failed role insert, second call: the delete of the profile
\* row settles, its result is not inspected, and the role error is thrown.
RollbackProfileRow ==
    /\ creator.pc = "rollbackProfileRow"
    /\ \E out \in CallOutcomes :
         admin_profiles' = IF out = "ok" THEN admin_profiles \ {creator.user}
                           ELSE admin_profiles
    /\ creator' = [creator EXCEPT !.pc = "done", !.response = "error"]
    /\ UNCHANGED <<auth_users, user_roles, cleaner>>
    /\ UNCHANGED syncing

\* cleanup-orphaned-users is invoked: the header, the user and is_super_admin
\* are checked; a failed check is thrown to the catch.
CleanerInvoke ==
    /\ cleaner.pc = "idle"
    /\ \E passes \in BOOLEAN :
         cleaner' = IF passes THEN [cleaner EXCEPT !.pc = "listUsers"]
                    ELSE [cleaner EXCEPT !.pc = "done", !.response = "error"]
    /\ UNCHANGED <<auth_users, admin_profiles, user_roles, creator>>
    /\ UNCHANGED syncing

\* auth.admin.listUsers() settles.
ListUsers ==
    /\ cleaner.pc = "listUsers"
    /\ \E out \in CallOutcomes :
         cleaner' = IF out = "ok"
                    THEN [cleaner EXCEPT !.pc = "profiles", !.allAuthUsers = auth_users]
                    ELSE [cleaner EXCEPT !.pc = "done", !.response = "error"]
    /\ UNCHANGED <<auth_users, admin_profiles, user_roles, creator>>
    /\ UNCHANGED syncing

\* The select of the profile ids settles; the orphaned users are the listed
\* users without a profile id.
SelectProfiles ==
    /\ cleaner.pc = "profiles"
    /\ \E out \in CallOutcomes :
         cleaner' = IF out = "ok"
                    THEN [cleaner EXCEPT !.pc = "delete",
                                         !.profileIds = admin_profiles,
                                         !.orphanedUsers =
                                             cleaner.allAuthUsers \ admin_profiles]
                    ELSE [cleaner EXCEPT !.pc = "done", !.response = "error"]
    /\ UNCHANGED <<auth_users, admin_profiles, user_roles, creator>>
    /\ UNCHANGED syncing

\* One turn of the loop over the orphaned users: deleteUser settles, and the
\* user is pushed to deletedUsers when there was no error.
DeleteOrphan ==
    /\ cleaner.pc = "delete"
    /\ \E orphan \in cleaner.orphanedUsers :
         \E out \in OutcomesFor(orphan) :
            /\ IF out = "ok" THEN DeletedUser(orphan)
               ELSE UNCHANGED <<auth_users, admin_profiles, user_roles>>
            /\ cleaner' = [cleaner EXCEPT
                   !.orphanedUsers = @ \ {orphan},
                   !.deletedUsers = IF out = "ok" THEN @ \cup {orphan} ELSE @]
    /\ UNCHANGED creator
    /\ UNCHANGED syncing

\* The loop is over: the response with the deleted users is returned.
CleanerRespond ==
    /\ cleaner.pc = "delete"
    /\ cleaner.orphanedUsers = {}
    /\ cleaner' = [cleaner EXCEPT !.pc = "done", !.response = "success"]
    /\ UNCHANGED <<auth_users, admin_profiles, user_roles, creator>>
    /\ UNCHANGED syncing

NextAdmin ==
    \/ CreatorInvoke
    \/ CreateUser
    \/ InsertProfile
    \/ RollbackProfile
    \/ InsertRole
    \/ RollbackUser
    \/ RollbackProfileRow
    \/ CleanerInvoke
    \/ ListUsers
    \/ SelectProfiles
    \/ DeleteOrphan
    \/ CleanerRespond

SpecAdmin == Init /\ [][NextAdmin]_vars

\* ------------------------------- the handler of sync-sheets/index.ts

\* FLOAT of the CSV parser, for texts without sign and exponent
IsFloatText(s) ==
    LET t == Trim(s) IN
    /\ \E i \in DOMAIN t : IsDigit(t[i])
    /\ \A i \in DOMAIN t : IsDigit(t[i]) \/ t[i] = "."
    /\ Cardinality({i \in DOMAIN t : t[i] = "."}) <= 1

RECURSIVE StripLeadingZeros(_)
StripLeadingZeros(s) ==
    IF Len(s) > 1 /\ Head(s) = "0" THEN StripLeadingZeros(Tail(s)) ELSE s

RECURSIVE StripTrailingZeros(_)
StripTrailingZeros(s) ==
    IF s # <<>> /\ s[Len(s)] = "0"
    THEN StripTrailingZeros(SubSeq(s, 1, Len(s) - 1)) ELSE s

\* String(parseFloat(s)) of a float text
NumberText(s) ==
    LET t == Trim(s)
        dots == {i \in DOMAIN t : t[i] = "."}
        dot == IF dots = {} THEN Len(t) + 1 ELSE CHOOSE i \in dots : TRUE
        whole == StripLeadingZeros(IF dot = 1 THEN <<"0">> ELSE SubSeq(t, 1, dot - 1))
        frac == StripTrailingZeros(SubSeq(t, dot + 1, Len(t)))
    IN  IF frac = <<>> THEN whole ELSE whole \o <<".">> \o frac

\* dynamicTyping: true turns a float text into a number and '' into null.
DynamicTyping(v) ==
    IF v = Null \/ v = <<>> THEN [type |-> "null", val |-> <<>>]
    ELSE IF IsFloatText(v) THEN [type |-> "number", val |-> NumberText(v)]
    ELSE [type |-> "string", val |-> v]

TypedCell(row, header) == DynamicTyping(Cell(row, header))

TypedTruthy(v) == v.type # "null" /\ v.val # <<>> /\ ~(v.type = "number" /\ v.val = <<"0">>)

TypedOr(a, b) == IF TypedTruthy(a) THEN a ELSE b

TypedNull == [type |-> "null", val |-> <<>>]

\* The value of a column as JSON.stringify and the store take it.
Sent(v) == IF v.type = "null" THEN Null ELSE v.val

LegacyRecord(t, row, rowNum, eventId) ==
    LET c(h) == TypedCell(row, h) IN
    CASE t = "program" ->
           [event_id |-> eventId,
            external_id |-> <<"p">> \o ToDecimal(rowNum),
            day |-> Sent(TypedOr(TypedOr(TypedOr(c("dag"), c("Dag")), c("day")), c("Day"))),
            start_time |-> Sent(TypedOr(c("start"), c("Start"))),
            end_time |-> Sent(TypedOr(TypedOr(c("end"), c("End")), TypedNull)),
            title |-> Sent(TypedOr(TypedOr(TypedOr(c("tittel"), c("Tittel")),
                                           c("title")), c("Title"))),
            description |-> Sent(TypedOr(TypedOr(TypedOr(TypedOr(
                                c("beskrivelse"), c("Beskrivelse")),
                                c("description")), c("Description")), TypedNull)),
            location |-> Sent(TypedOr(TypedOr(TypedOr(TypedOr(
                                c("sted"), c("Sted")),
                                c("location")), c("Location")), TypedNull))]
      [] t = "participants" ->
           [event_id |-> eventId,
            external_id |-> <<"d">> \o ToDecimal(rowNum),
            name |-> Sent(TypedOr(TypedOr(TypedOr(c("navn"), c("Navn")),
                                          c("name")), c("Name"))),
            company |-> Sent(TypedOr(TypedOr(TypedOr(TypedOr(
                                c("bedrift"), c("Bedrift")),
                                c("company")), c("Company")), TypedNull))]
      [] t = "exhibitors" ->
           [event_id |-> eventId,
            external_id |-> <<"u">> \o ToDecimal(rowNum),
            company_name |-> Sent(TypedOr(TypedOr(TypedOr(
                                c("bedriftsnavn"), c("Bedriftsnavn")),
                                c("company")), c("Company"))),
            stand_number |-> Sent(TypedOr(TypedOr(TypedOr(TypedOr(
                                c("standnummer"), c("Standnummer")),
                                c("stand")), c("Stand")), TypedNull))]

\* data.map(...): every row becomes a record
LegacyRecordsOf(t, rows, eventId) ==
    [i \in 1..Len(rows) |-> LegacyRecord(t, rows[i], i, eventId)]

\* sheetsUrl.match(/\/d\/([a-zA-Z0-9-_]+)/)
LegacyMatchesUrl(u) ==
    /\ Len(u) >= 2
    /\ u[1] \in {GoogleSheetsPrefix, "https://example.org/d/"}
    /\ u[2] \in (Digits \cup {"a", "s", "Z", "-", "_"})

\* The requests this handler is checked on: it reads no header and asks no
\* lookup, so one caller without and one with the admin role are enough.
LegacyRequests ==
    {r \in Requests : r.lookupError = "none" /\ r.auth \in {"user1", "admin1"}}

\* A request arrives at the endpoint.
LegacyArrive ==
    /\ pc = "idle"
    /\ \E r \in LegacyRequests : req' = r
    /\ pc' = "start"
    /\ store0' = store
    /\ UNCHANGED <<store, events, user_roles, cur, data, items, results, response, trace>>
    /\ UNCHANGED outside

LegacySheets(t) ==
    SeqsUpTo({r \in RowsOfSheet(t) : Keep(t, RecordOf(t, r, 1, EventA))}, MaxRows)
        \cup {<<[html |-> <<"4", "0", "4">>]>>}

\* req.json(), the match of sheetsUrl (both throw to the outer catch), the
\* results object; then the Program sheet is fetched.
LegacyParseBody ==
    /\ pc = "start"
    /\ IF ~req.body.json THEN
            Reject(500, "Unexpected token in JSON") /\ UNCHANGED <<cur, results>>
       ELSE IF req.body.sheetsUrl.type # "string" THEN
            Reject(500, "sheetsUrl.match is not a function") /\ UNCHANGED <<cur, results>>
       ELSE IF ~LegacyMatchesUrl(req.body.sheetsUrl.val) THEN
            Reject(500, "Invalid Google Sheets URL") /\ UNCHANGED <<cur, results>>
       ELSE /\ pc' = "fetch"
            /\ cur' = 1
            /\ results' = EmptyResults
            /\ UNCHANGED response
    /\ UNCHANGED <<store, events, user_roles, req, data, items, trace, store0>>
    /\ UNCHANGED outside

\* await fetch(url) settles: a rejection is caught, any response is read.
LegacyFetch ==
    /\ pc = "fetch"
    /\ \E settled \in {"rejected", "response"} :
         IF settled = "rejected" THEN
              /\ trace' = [trace EXCEPT ![Entity].fetch = "timeout"]
              /\ Caught(<<"error sending request">>)
         ELSE /\ trace' = [trace EXCEPT ![Entity].fetch = "headers"]
              /\ pc' = "text"
              /\ UNCHANGED <<cur, data, items, results>>
    /\ UNCHANGED <<store, events, user_roles, req, response, store0>>
    /\ UNCHANGED outside

\* await res.text() settles and is parsed; then the delete is awaited.
LegacyRead ==
    /\ pc = "text"
    /\ \E settled \in {"rejected", "text"} :
         IF settled = "rejected" THEN
              /\ trace' = [trace EXCEPT ![Entity].fetch = "timeout"]
              /\ Caught(<<"error reading a body from connection">>)
         ELSE /\ \E s \in LegacySheets(Entity) : data' = s
              /\ trace' = [trace EXCEPT ![Entity].fetch = "ok"]
              /\ pc' = "delete"
              /\ UNCHANGED <<cur, items, results>>
    /\ UNCHANGED <<store, events, user_roles, req, response, store0>>
    /\ UNCHANGED outside

\* await delete().eq('event_id', eventId) settles (its result is dropped);
\* the rows are mapped; the insert is awaited.
LegacyDelete ==
    /\ pc = "delete"
    /\ \E out \in DeleteOutcomes(req.body.eventId) :
         /\ store' = IF out = "ok"
                     THEN [store EXCEPT ![TableOf(Entity)] =
                               RowsAfterDelete(@, req.body.eventId)]
                     ELSE store
         /\ trace' = [trace EXCEPT ![Entity].delete = out]
    /\ items' = LegacyRecordsOf(Entity, data, req.body.eventId)
    /\ pc' = "insert"
    /\ UNCHANGED <<events, user_roles, req, cur, data, results, response, store0>>
    /\ UNCHANGED outside

NextLegacy ==
    \/ LegacyArrive
    \/ LegacyParseBody
    \/ LegacyFetch
    \/ LegacyRead
    \/ LegacyDelete
    \/ InsertRows
    \/ Respond

SpecLegacy == Init /\ [][NextLegacy]_vars

Next ==
    \/ Arrive
    \/ Authenticate
    \/ VerifyUser
    \/ CheckAdminRole
    \/ ValidateBody
    \/ VerifyEvent
    \/ FetchSheet
    \/ ReadSheet
    \/ DeleteRows
    \/ InsertRows
    \/ Respond

Spec == Init /\ [][Next]_vars

\* Every await of the handler settles: the fetch carries a 30 s abort signal,
\* and the calls to the store and to the auth service are HTTP requests that
\* answer or fail. So a step that is possible is eventually taken.
FairSpec == Spec /\ WF_vars(Next)

\* ===================================================== the properties

AllEntities == {"program", "participants", "exhibitors"}

\* The handler has passed every guard of the request.
Executing == pc \in {"fetch", "text", "delete", "insert", "respond"}

\* ------------------------------------------------------------------ C1

\* The caller presents a credential that verifies and has no row with role
\* 'admin' in user_roles.
C1_NonAdminCaller ==
    /\ pc # "idle"
    /\ req.auth \in Users
    /\ req.lookupError # "user"
    /\ ~\E row \in user_roles : row.user_id = req.auth /\ row.role = "admin"

\* C1: for every request whose caller has a valid credential and no 'admin'
\* row in user_roles, the handler issues no delete and no insert (the store
\* stays as it was when the request arrived) and answers with status 403.
C1_AuthorizationGate ==
    C1_NonAdminCaller =>
        /\ \A t \in AllEntities : trace[t].delete = "none" /\ trace[t].insert = "none"
        /\ store = store0
        /\ pc = "done" => response.status = 403

\* ------------------------------------------------------------------ C2

\* Which guard a request-level error message belongs to.
C2_Kind(message) ==
    CASE message = "Missing authorization header" -> "header"
      [] message = "Invalid or expired token" -> "token"
      [] message = "Unauthorized - admin role required" -> "role"
      [] message = "Invalid event ID format" -> "eventId"
      [] message = "Invalid sheets URL" -> "sheetsUrl"
      [] message = "Invalid Google Sheets URL format. Must be a valid Google Sheets URL."
            -> "sheetsUrl"
      [] message = "Event not found or access denied" -> "event"
      [] OTHER -> "other"

\* The status the guards give request r when they are taken in the order
\* header, credential, role, eventId, sheetsUrl type, sheetsUrl pattern, event;
\* status 0 when r passes them all. A body that is no JSON is not a guard.
C2_Expected(r) ==
    IF r.auth = "none" THEN [status |-> 401, kind |-> "header"]
    ELSE IF r.auth \notin Users \/ r.lookupError = "user"
    THEN [status |-> 401, kind |-> "token"]
    ELSE IF r.lookupError = "role"
            \/ ~\E row \in user_roles : row.user_id = r.auth /\ row.role = "admin"
    THEN [status |-> 403, kind |-> "role"]
    ELSE IF ~r.body.json THEN [status |-> 500, kind |-> "other"]
    ELSE IF ~IsUuid(r.body.eventId) THEN [status |-> 400, kind |-> "eventId"]
    ELSE IF r.body.sheetsUrl.type # "string" THEN [status |-> 400, kind |-> "sheetsUrl"]
    ELSE IF ~MatchesSheetsUrl(r.body.sheetsUrl.val)
    THEN [status |-> 400, kind |-> "sheetsUrl"]
    ELSE IF r.lookupError = "event" \/ r.body.eventId \notin events
    THEN [status |-> 404, kind |-> "event"]
    ELSE [status |-> 0, kind |-> "none"]

\* C2: the response to a request is determined by the first guard that fails,
\* in the order 401 (no Authorization header), 401 (credential does not
\* verify), 403 (no 'admin' role), 400 (eventId), 400 (sheetsUrl not a string),
\* 400 (sheetsUrl not a Google Sheets link), 404 (event not found), whatever
\* the later guards would say; and the pipelines run only for a request that
\* passes every guard.
C2_GuardPrecedence ==
    /\ (pc = "done" /\ C2_Expected(req).status \in {400, 401, 403, 404}) =>
            /\ response.status = C2_Expected(req).status
            /\ C2_Kind(response.error) = C2_Expected(req).kind
    /\ (Executing \/ \E t \in AllEntities : trace[t].fetch # "none") =>
            C2_Expected(req).status = 0

\* A caller without the admin role sends a malformed eventId and gets 403.
C2_Witness ==
    /\ pc = "done"
    /\ req.auth = "user1"
    /\ req.lookupError = "none"
    /\ req.body.json
    /\ ~IsUuid(req.body.eventId)
    /\ response.status = 403

\* ------------------------------------------------------------------ C3

\* C3: a request answered with 401, 400 or 404 has had no sheet fetched and
\* no delete or insert issued, and leaves every table as it was.
C3_RequestErrorsNoSideEffects ==
    (pc = "done" /\ response.status \in {400, 401, 404}) =>
        /\ \A t \in AllEntities : trace[t] = [fetch |-> "none", delete |-> "none", insert |-> "none", sent |-> <<>>]
        /\ store = store0

\* The request names an event that does not exist and is answered with 404.
C3_Witness ==
    /\ pc = "done"
    /\ response.status = 404
    /\ req.body.eventId = EventGone

\* ------------------------------------------------------------------ C4

\* The pipeline of entity type t has failed at one of its steps: the fetch
\* (rejected, HTTP error status), a limit, or the insert.
C4_Failed(t) ==
    \/ trace[t].fetch \in {"timeout", "http", "declared", "text", "rows"}
    \/ trace[t].insert = "error"

\* C4: failure isolation. At the end of an invocation that passed the guards
\* the pipeline of every entity type has been run; an entity type whose
\* pipeline failed (fetch error or timeout, size or row limit, insert error)
\* has the one message in its own errors list; every other entity type has an
\* empty errors list and a count equal to the number of accepted rows that
\* were handed to its insert.
C4_FailureIsolation ==
    (pc = "done" /\ response.status = 200) =>
        \A t \in AllEntities :
            /\ trace[t].fetch # "none"
            /\ C4_Failed(t) => Len(results[t].errors) = 1 /\ results[t].count = 0
            /\ ~C4_Failed(t) =>
                   /\ results[t].errors = <<>>
                   /\ trace[t].insert = "ok"
                   /\ results[t].count = Len(trace[t].sent)

\* Only the fetch of 'Deltakere' answers with an HTTP error status; program
\* and exhibitors have synced rows.
C4_Witness ==
    /\ pc = "done"
    /\ trace["participants"].fetch = "http"
    /\ results["participants"].errors # <<>>
    /\ ~C4_Failed("program") /\ results["program"].count > 0
    /\ ~C4_Failed("exhibitors") /\ results["exhibitors"].count > 0

\* ------------------------------------------------------------------ C5

\* The Completed response: HTTP 200, success: true, the results object with
\* its three entity types (the timestamp is new Date().toISOString(), always
\* there with the results).
C5_Completed ==
    /\ pc = "done"
    /\ response.status = 200
    /\ response.success
    /\ response.hasResults
    /\ DOMAIN results = AllEntities

\* C5: every invocation ends, and one that has passed the guards ends in
\* Completed, whatever fails inside the three pipelines (the response is the
\* last step of an invocation); success: false never comes with status 200.
C5_AlwaysCompleted ==
    (pc # "idle") ~>
        /\ pc = "done"
        /\ C2_Expected(req).status = 0 => C5_Completed
        /\ ~response.success => response.status # 200

\* All three pipelines have failed and the response is still Completed.
C5_Witness ==
    /\ C5_Completed
    /\ \A t \in AllEntities : results[t].errors # <<>>

\* ------------------------------------------------------------------ C6

\* The rows of a table that belong to the event of the request.
StoredFor(t) == SelectSeq(store[TableOf(t)], LAMBDA r : r.event_id = req.body.eventId)

\* C6: full replace. At the end of an invocation, for every entity type that
\* reports no error, the rows stored for the event are exactly the accepted
\* rows handed to the insert, one stored row per accepted row, and no row
\* from before the invocation survives.
C6_FullReplace ==
    (pc = "done" /\ response.status = 200) =>
        \A t \in AllEntities :
            results[t].errors = <<>> => StoredFor(t) = trace[t].sent

\* ------------------------------------------------------------------ C7

\* C7: store errors are surfaced. At the end of an invocation, every entity
\* type whose delete or whose insert got an error result from the store has
\* a message in its errors list and count 0.
C7_StoreErrorsSurfaced ==
    (pc = "done" /\ response.status = 200) =>
        \A t \in AllEntities :
            (trace[t].delete = "error" \/ trace[t].insert = "error") =>
                results[t].errors # <<>> /\ results[t].count = 0

\* ------------------------------------------------------------------ C8

\* What the table of entity type u holds when only the pipeline of u has
\* acted on it: the rows at arrival, without those of the event if the delete
\* succeeded, followed by the inserted rows if the insert succeeded.
C8_OwnOutcome(u) ==
    LET before == store0[TableOf(u)]
        kept == IF trace[u].delete = "ok"
                THEN SelectSeq(before, LAMBDA r : r.event_id # req.body.eventId)
                ELSE before
    IN  IF trace[u].insert = "ok" THEN kept \o trace[u].sent ELSE kept

\* C8: non-transactional replace. If the delete of an entity type succeeds
\* and its insert fails, then at the end of the invocation the event has no
\* row of that entity type, the errors list of the entity type holds the
\* insert error, its count is 0, and the tables of the other two entity types
\* are what their own pipelines made of them.
C8_NonTransactionalReplace ==
    (pc = "done" /\ response.status = 200) =>
        \A t \in AllEntities :
            (trace[t].delete = "ok" /\ trace[t].insert = "error") =>
                /\ StoredFor(t) = <<>>
                /\ results[t].errors = << <<"insert into", TableOf(t), "failed">> >>
                /\ results[t].count = 0
                /\ \A u \in AllEntities \ {t} : store[TableOf(u)] = C8_OwnOutcome(u)

\* The program items of the event were deleted, the insert of the new ones
\* failed, and the event had a program item when the request arrived.
C8_Witness ==
    /\ pc = "done"
    /\ trace["program"].delete = "ok"
    /\ trace["program"].insert = "error"
    /\ trace["program"].sent # <<>>
    /\ \E i \in DOMAIN store0["program_items"] :
           store0["program_items"][i].event_id = req.body.eventId
    /\ StoredFor("program") = <<>>

\* ------------------------------------------------------------------ C9

\* The messages of the size limit and of the row limit for entity type t.
C9_LimitMessages(t) ==
    {<<SheetOf(t), "sheet exceeds maximum file size (10MB)">>,
     <<SheetOf(t), "sheet exceeds maximum row count", "1", "0", "0", "0", "0">>}

\* C9: size and row limits. At the end of an invocation, an entity type whose
\* sheet declared more than 10 MB, was longer than 10 MB or had more than
\* 10,000 rows has the limit's message in its errors list and count 0, had
\* neither its delete nor its insert issued, and its table is as it was when
\* the request arrived; the pipelines of the other entity types have run.
C9_SizeAndRowLimits ==
    /\ \A t \in AllEntities :
           trace[t].fetch \in {"declared", "text", "rows"} =>
               /\ trace[t].delete = "none"
               /\ trace[t].insert = "none"
               /\ store[TableOf(t)] = store0[TableOf(t)]
               /\ pc # "delete" \/ Entity # t
    /\ (pc = "done" /\ response.status = 200) =>
           \A t \in AllEntities :
               trace[t].fetch \in {"declared", "text", "rows"} =>
                   /\ Len(results[t].errors) = 1
                   /\ results[t].errors[1] \in C9_LimitMessages(t)
                   /\ results[t].count = 0
                   /\ \A u \in AllEntities : trace[u].fetch # "none"

\* The Program sheet has more than 10,000 rows, the program items are as
\* before, and the participants have been synced.
C9_Witness ==
    /\ pc = "done"
    /\ trace["program"].fetch = "rows"
    /\ results["program"].errors # <<>>
    /\ store["program_items"] = store0["program_items"]
    /\ trace["participants"].insert = "ok"
    /\ results["participants"].count > 0

\* ----------------------------------------------------------------- C10

\* The non-blank values, trimmed, that a row has under the given headers.
C10_Values(row, headers) ==
    {Trim(row[h]) : h \in {x \in headers : x \in DOMAIN row /\ row[x] # Null}} \ {<<>>}

C10_DayHeaders == {"dag", "Dag", "day", "Day"}

C10_StartHeaders == {"start", "Start"}

C10_TitleHeaders == {"tittel", "Tittel", "title", "Title"}

C10_NameHeaders == {"navn", "Navn", "name", "Name"}

C10_CompanyHeaders == {"bedriftsnavn", "Bedriftsnavn", "company", "Company"}

\* The required fields of the row are present and normalize, and the
\* record is made of them.
C10_MadeFrom(t, row, item) ==
    CASE t = "program" ->
           /\ \E d \in C10_Values(row, C10_DayHeaders) :
                  parseFlexibleDate(d) # Null /\ item.day = parseFlexibleDate(d)
           /\ \E s \in C10_Values(row, C10_StartHeaders) :
                  parseFlexibleTime(s) # Null /\ item.start_time = parseFlexibleTime(s)
           /\ item.title \in C10_Values(row, C10_TitleHeaders)
      [] t = "participants" -> item.name \in C10_Values(row, C10_NameHeaders)
      [] t = "exhibitors" -> item.company_name \in C10_Values(row, C10_CompanyHeaders)

\* The row has every required field of its entity type, present and normalized.
C10_Accepted(t, row) ==
    CASE t = "program" ->
           /\ \E d \in C10_Values(row, C10_DayHeaders) : parseFlexibleDate(d) # Null
           /\ \E s \in C10_Values(row, C10_StartHeaders) : parseFlexibleTime(s) # Null
           /\ C10_Values(row, C10_TitleHeaders) \ {Untitled} # {}
      [] t = "participants" -> C10_Values(row, C10_NameHeaders) \ {Unknown} # {}
      [] t = "exhibitors" -> C10_Values(row, C10_CompanyHeaders) \ {UnknownCompany} # {}

\* The sheet and the one program item of the example.
C10_ExampleSheet ==
    <<[dag |-> <<"1", "5", ".", "0", "3", ".", "2", "0", "2", "6">>,
       start |-> <<"9", ".", "3", "0">>,
       tittel |-> <<"A", "p", "n", "i", "n", "g">>],
      [dag |-> <<>>,
       start |-> <<"1", "0", ":", "0", "0">>,
       tittel |-> <<"K", "e", "y", "n", "o", "t", "e">>]>>

C10_ExampleItem ==
    [event_id |-> EventA, external_id |-> <<"p", "1">>,
     day |-> <<"2", "0", "2", "6", "-", "0", "3", "-", "1", "5">>,
     start_time |-> <<"0", "9", ":", "3", "0">>, end_time |-> Null,
     title |-> <<"A", "p", "n", "i", "n", "g">>,
     description |-> Null, location |-> Null]

\* C10: row acceptance. The records handed to the insert of an entity type
\* are made, one each, of the rows of its sheet whose required fields (day,
\* start_time and title; name; company_name) are present and normalize; a
\* row without them gives no record, no placeholder, no null required field
\* and no entry in the errors list, and the records of the other rows are
\* still handed over. The sheet of the example gives the one item of the
\* example; and a successful insert reports the number of records as count.
C10_RowAcceptance ==
    /\ pc = "insert" =>
           /\ \A k \in DOMAIN items :
                  \E i \in DOMAIN data : C10_MadeFrom(Entity, data[i], items[k])
           /\ Len(items) = Cardinality({i \in DOMAIN data : C10_Accepted(Entity, data[i])})
           /\ results[Entity].errors = <<>>
           /\ (Entity = "program" /\ data = C10_ExampleSheet) => items = <<C10_ExampleItem>>
    /\ \A t \in AllEntities :
           trace[t].insert = "ok" =>
               /\ results[t].count = Len(trace[t].sent)
               /\ \A k \in DOMAIN trace[t].sent :
                      \E i \in DOMAIN store[TableOf(t)] :
                          store[TableOf(t)][i] = trace[t].sent[k]

\* The Program sheet of the example has been mapped and filtered: one item is
\* about to be inserted.
C10_Witness ==
    /\ pc = "insert"
    /\ Entity = "program"
    /\ data = C10_ExampleSheet
    /\ Len(items) = 1

\* ------------------------------------------------------------------- C11

\* Neither invocation has an error in its results.
C11_AllSucceeded ==
    \A t \in AllEntities : results[t].errors = <<>> /\ peer.results[t].errors = <<>>

\* C11: when two syncs of one event run one after the other against the same
\* unchanged spreadsheet and every fetch and store call succeeds, both report
\* the same counts and the rows stored for the event after the second sync
\* are, field by field and external_id included, the rows stored after the
\* first, for all three entity types.
C11_Idempotence ==
    (peer.sequential /\ peer.pc = "done" /\ C11_AllSucceeded)
        => \A t \in AllEntities :
              /\ peer.results[t].count = results[t].count
              /\ RowsOfEvent(store[TableOf(t)], req.body.eventId)
                    = RowsOfEvent(peer.before[TableOf(t)], req.body.eventId)

\* A second sync after the first has stored the accepted rows of the sheet
\* again, and there are such rows.
C11_Witness ==
    /\ peer.sequential /\ peer.pc = "done" /\ C11_AllSucceeded
    /\ results["program"].count > 0
    /\ peer.results["program"].count = results["program"].count
    /\ RowsOfEvent(store["program_items"], req.body.eventId) = trace["program"].sent
    /\ trace["program"].sent # <<>>

\* ------------------------------------------------------------------- C12

\* A text of one or two digits, written with two.
C12_TwoDigits(t) == IF Len(t) = 1 THEN <<"0">> \o t ELSE t

\* What the Date Normalizer is to return for a call.
C12_Expected(call) ==
    CASE call.form = "iso" -> call.text
      [] call.form \in {"dayFirst", "yearFirst"} ->
           call.year \o <<"-">> \o C12_TwoDigits(call.month) \o <<"-">>
               \o C12_TwoDigits(call.day)
      [] call.form = "other" -> Null

C12_Target == <<"2", "0", "2", "6", "-", "0", "3", "-", "1", "5">>

\* The inputs the specification names, and the results it names for them.
C12_Examples ==
    {<<C12_Target, C12_Target>>,
     <<<<"1", "5", "/", "0", "3", "/", "2", "0", "2", "6">>, C12_Target>>,
     <<<<"1", "5", ".", "0", "3", ".", "2", "0", "2", "6">>, C12_Target>>,
     <<<<"2", "0", "2", "6", "/", "0", "3", "/", "1", "5">>, C12_Target>>,
     <<<<"0", "3", "/", "0", "4", "/", "2", "0", "2", "6">>,
       <<"2", "0", "2", "6", "-", "0", "4", "-", "0", "3">>>>,
     <<<<>>, Null>>, <<Null, Null>>, <<NotADate, Null>>}

\* C12: the Date Normalizer returns a YYYY-MM-DD input unchanged, reads
\* D[./-]M[./-]YYYY day-first and YYYY[./-]M[./-]D year-first and returns
\* both as YYYY-MM-DD with month and day zero-padded; '2026-03-15',
\* '15/03/2026', '15.03.2026' and '2026/03/15' yield '2026-03-15',
\* '03/04/2026' yields '2026-04-03', and '', null and 'not-a-date' yield the
\* unparseable signal.
C12_DateNormalizer ==
    (arg.fn = "parseFlexibleDate" /\ ret.returned)
        => /\ ret.value = C12_Expected(arg)
           /\ \A e \in C12_Examples : arg.text = e[1] => ret.value = e[2]

\* The ambiguous input '03/04/2026' has been read day-first.
C12_Witness ==
    /\ arg.fn = "parseFlexibleDate" /\ ret.returned
    /\ arg.text = <<"0", "3", "/", "0", "4", "/", "2", "0", "2", "6">>
    /\ ret.value = <<"2", "0", "2", "6", "-", "0", "4", "-", "0", "3">>

\* ------------------------------------------------------------------- C13

\* What the Time Normalizer is to return for a call.
C13_Expected(call) ==
    IF call.form = "other" THEN Null
    ELSE (IF Len(call.hour) = 1 THEN <<"0">> \o call.hour ELSE call.hour)
             \o <<":">> \o call.minute

C13_Target == <<"0", "9", ":", "3", "0">>

\* The inputs the specification names; each is to yield '09:30'.
C13_Examples ==
    {<<"9", ":", "3", "0">>, <<"0", "9", ":", "3", "0">>, <<"9", ".", "3", "0">>,
     <<"0", "9", "3", "0">>, <<"0", "9", ":", "3", "0", ":", "0", "0">>,
     <<"9", "3", "0">>}

\* C13: the Time Normalizer returns H:MM, HH:MM, H.MM, HH.MM, HMM, HHMM,
\* H:MM:SS and HH:MM:SS inputs as HH:MM, the hour zero-padded, the minutes
\* kept and the seconds dropped; every other input, '' and null yield the
\* unparseable signal; '9:30', '09:30', '9.30', '0930', '09:30:00' and '930'
\* yield '09:30'.
C13_TimeNormalizer ==
    (arg.fn = "parseFlexibleTime" /\ ret.returned)
        => /\ ret.value = C13_Expected(arg)
           /\ arg.text \in C13_Examples => ret.value = C13_Target

\* The three-digit input '930' has been returned as '09:30'.
C13_Witness ==
    /\ arg.fn = "parseFlexibleTime" /\ ret.returned
    /\ arg.text = <<"9", "3", "0">>
    /\ ret.value = C13_Target

\* ------------------------------------------------------------------- C14

\* Both invocations have answered, and neither has an error in its results.
C14_BothSucceeded ==
    /\ pc = "done" /\ response.status = 200 /\ response.success
    /\ peer.pc = "done"
    /\ C11_AllSucceeded

\* C14: no lock serializes two syncs of one event: their delete and insert
\* calls interleave, and when the delete of each comes before the insert of
\* the other, every accepted row of the sheet is stored twice, while both
\* invocations report success, no error, and the count of one sync; when the
\* calls of one come before the calls of the other the rows are stored once.
C14_UnserializedSyncs ==
    C14_BothSucceeded
        => \A t \in AllEntities :
              /\ results[t].count = Len(trace[t].sent)
              /\ peer.results[t].count = Len(trace[t].sent)
              /\ RowsOfEvent(store[TableOf(t)], req.body.eventId)
                    = IF peer.overlap[t] THEN trace[t].sent \o trace[t].sent
                      ELSE trace[t].sent

\* Both invocations report success and the accepted rows of the Program
\* sheet are stored twice: the store holds more rows for the event than the
\* sheet has accepted rows.
C14_Witness ==
    /\ C14_BothSucceeded
    /\ ~peer.sequential
    /\ trace["program"].sent # <<>>
    /\ RowsOfEvent(store["program_items"], req.body.eventId)
          = trace["program"].sent \o trace["program"].sent
    /\ Len(RowsOfEvent(store["program_items"], req.body.eventId))
          > results["program"].count

\* ------------------------------------------------------------------- C15

\* A sync attempt started from the event editor is over: the endpoint has
\* answered and handleSync has returned.
C15_AttemptOver == editor.pc = "done" /\ pc = "done"

\* C15: after every sync attempt started from the event editor the event's
\* last_synced_at is updated, whether the endpoint answered with results or
\* with a request-level error (401, 403, 400, 404, 500), unless the update
\* itself failed in the store.
C15_LastSyncedAfterEveryAttempt ==
    (C15_AttemptOver /\ editor.update # "error")
        => last_synced_at[EventA] # 0

\* ------------------------------------------------------------------- C16

\* The request has passed the guards that come before the body is read.
C16_BodyRead(r) == C2_Expected(r).status \notin {401, 403}

\* A JSON body that has neither a sheetsUrl nor an eventId field.
C16_NoFields(b) == b.json /\ b.eventId = Null /\ b.sheetsUrl = JsUndefined

\* The invocation was aborted: status 500, success false, a message.
C16_Aborted ==
    /\ response.status = 500
    /\ ~response.success
    /\ response.error # ""

\* No delete and no insert was issued, and the tables are as they were.
C16_NothingWritten ==
    /\ \A t \in AllEntities : trace[t].delete = "none" /\ trace[t].insert = "none"
    /\ store = store0

\* C16 as stated: a request body that is not valid JSON, and a body without
\* sheetsUrl and eventId fields, abort the invocation with status 500, success
\* false and a message, and a 500 response is never preceded by a delete or
\* an insert.
C16_UnexpectedFailure ==
    /\ (pc = "done" /\ C16_BodyRead(req)
            /\ (~req.body.json \/ C16_NoFields(req.body)))
          => C16_Aborted /\ C16_NothingWritten
    /\ (pc = "done" /\ response.status = 500) => C16_NothingWritten

\* C16, amended: a request body that is not valid JSON aborts the invocation
\* with status 500, success false and the exception's message, and a 500
\* response is never preceded by a delete or an insert; a JSON body without
\* sheetsUrl and eventId fields raises no exception and is answered by the
\* eventId guard with status 400.
C16_UnexpectedFailureAmended ==
    /\ (pc = "done" /\ C16_BodyRead(req) /\ ~req.body.json)
          => C16_Aborted /\ C16_NothingWritten
    /\ (pc = "done" /\ response.status = 500)
          => ~response.hasResults /\ C16_NothingWritten
    /\ (pc = "done" /\ C16_BodyRead(req) /\ C16_NoFields(req.body))
          => /\ response.status = 400
             /\ response.error = "Invalid event ID format"
             /\ C16_NothingWritten

\* An admin has sent a body that is no JSON and got the 500 answer.
C16_Witness ==
    /\ pc = "done"
    /\ C16_BodyRead(req)
    /\ ~req.body.json
    /\ C16_Aborted

\* ------------------------------------------------------------------- C17

\* C17: column headers are matched case-insensitively: a row whose header
\* differs from an accepted alias only in letter case ('DAG', 'dAg', 'TITTEL',
\* 'NAVN', 'BEDRIFTSNAVN') gives the records the row gives with the header
\* written as the alias.
C17_CaseInsensitiveHeaders ==
    (arg.fn = "RecordsOf" /\ ret.returned)
        => ret.value = RecordsOf(arg.entity, arg.aliasData, EventA)

\* ------------------------------------------------------------------- C18

C18_Prefix(t) ==
    CASE t = "program" -> "p" [] t = "participants" -> "d" [] t = "exhibitors" -> "u"

\* The decimal numeral of a row index up to 4.
C18_Numeral(i) ==
    CASE i = 1 -> <<"1">> [] i = 2 -> <<"2">> [] i = 3 -> <<"3">> [] i = 4 -> <<"4">>

\* C18: the rows persisted for an entity type in one sync carry the external
\* ids <prefix>1, <prefix>2, ..., <prefix>N in sheet order, N being the number
\* of persisted rows; a row dropped by validation leaves no gap, and no two
\* persisted rows share an external id.
C18_ExternalIdsAmongRetained ==
    \A t \in AllEntities :
        trace[t].insert = "ok" =>
            /\ \A i \in DOMAIN trace[t].sent :
                  trace[t].sent[i].external_id = <<C18_Prefix(t)>> \o C18_Numeral(i)
            /\ \A i, j \in DOMAIN trace[t].sent :
                  trace[t].sent[i].external_id = trace[t].sent[j].external_id => i = j

\* ------------------------------------------------------------------- C19

\* A cell that counts as missing: absent, empty or whitespace only.
C19_Blank(row, header) ==
    \/ header \notin DOMAIN row
    \/ \A i \in DOMAIN row[header] : row[header][i] \in Whitespace

\* The value of the first alias of the list whose cell is not blank; Null
\* when there is none.
C19_FirstNonBlank(row, aliases) ==
    LET found == {i \in DOMAIN aliases : ~C19_Blank(row, aliases[i])}
    IN  IF found = {} THEN Null
        ELSE row[aliases[CHOOSE i \in found : \A j \in found : i <= j]]

\* C19: the Field Extractor returns the value of the first alias of the list
\* whose cell is non-empty, an empty or whitespace-only cell counting as
\* missing, and 'missing' only when the cells of all aliases are absent, empty
\* or whitespace-only: the rows {dag: '', Dag: '15.03.2026'} and
\* {dag: ' ', Dag: '15.03.2026'} both give the day '15.03.2026'.
C19_FieldExtractor ==
    (arg.fn = "RecordsOf" /\ ret.returned /\ arg.field = "day"
        /\ arg.header = arg.aliases[1])
        => LET dayRaw == C19_FirstNonBlank(arg.data[1], arg.aliases)
           IN  IF dayRaw = Null THEN ret.value = <<>>
               ELSE /\ Len(ret.value) = 1
                    /\ ret.value[1].day = parseFlexibleDate(dayRaw)

\* ------------------------------------------------------------------- C20

\* A text YYYY-MM-DD with a month in 01..12 and a day in 01..31.
C20_Canonical(v) ==
    /\ Len(v) = 10
    /\ v[5] = "-" /\ v[8] = "-"
    /\ \A i \in {1, 2, 3, 4, 6, 7, 9, 10} : v[i] \in Digits
    /\ SubSeq(v, 6, 7) \in
         {<<"0", d>> : d \in Digits \ {"0"}} \cup {<<"1", "0">>, <<"1", "1">>, <<"1", "2">>}
    /\ SubSeq(v, 9, 10) \in
         ({<<a, b>> : a \in {"0", "1", "2"}, b \in Digits} \ {<<"0", "0">>})
             \cup {<<"3", "0">>, <<"3", "1">>}

\* C20: whenever the Date Normalizer does not return the unparseable signal
\* its result is a text YYYY-MM-DD with a month in 01..12 and a day in 01..31;
\* and no row that passed validation makes the bulk insert of its entity type
\* fail.
C20_CanonicalDate ==
    /\ (arg.fn = "parseFlexibleDate" /\ ret.returned /\ ret.value # Null)
          => C20_Canonical(ret.value)
    /\ (arg.fn = "RecordsOf" /\ ret.returned /\ arg.entity = "program")
          => InsertOutcomes("program_items", ret.value, events) # {"error"}

\* ------------------------------------------------------------------- C21

\* A text HH:MM with HH in 00..23 and MM in 00..59.
C21_Canonical(v) ==
    /\ Len(v) = 5
    /\ v[3] = ":"
    /\ SubSeq(v, 1, 2) \in
         {<<a, b>> : a \in {"0", "1"}, b \in Digits}
             \cup {<<"2", b>> : b \in {"0", "1", "2", "3"}}
    /\ SubSeq(v, 4, 5) \in {<<a, b>> : a \in {"0", "1", "2", "3", "4", "5"}, b \in Digits}

\* C21: whenever the Time Normalizer does not return the unparseable signal
\* its result is a text HH:MM with HH in 00..23 and MM in 00..59, a value the
\* time columns accept; '25:00', '9.75' and '9999' are unparseable.
C21_CanonicalTime ==
    (arg.fn = "parseFlexibleTime" /\ ret.returned)
        => /\ ret.value # Null => C21_Canonical(ret.value) /\ TimeColumn(ret.value) = "yes"
           /\ arg.text \in {<<"2", "5", ":", "0", "0">>, <<"9", ".", "7", "5">>,
                            <<"9", "9", "9", "9">>} => ret.value = Null

\* ------------------------------------------------------------------- C22

\* C22: for every accepted Program row the value of the sheet's category
\* column is stored in the category field of the persisted item, and the
\* field is null when the column is absent or empty.
C22_CategoryIngested ==
    (arg.fn = "RecordsOf" /\ ret.returned /\ arg.field = "category")
        => /\ Len(ret.value) = 1
           /\ CategoryOf(ret.value[1])
                 = IF arg.header = "none" \/ arg.data[1].category = <<>> THEN Null
                   ELSE arg.data[1].category

\* ------------------------------------------------------------------- C23

\* The required text field of an entity type, in a record.
C23_RequiredField(t, item) ==
    CASE t = "program" -> item.title
      [] t = "participants" -> item.name
      [] t = "exhibitors" -> item.company_name

\* C23: no valid row is dropped: a non-empty row whose required fields are
\* all present and normalizable is persisted with the text of its required
\* field, whatever that text is ('Untitled', 'Unknown' and 'Unknown Company'
\* included), and a row is rejected only when a required field is missing.
C23_NoValidRowDropped ==
    (arg.fn = "RecordsOf" /\ ret.returned /\ arg.field = "required")
        => IF arg.data[1][arg.header] = <<>> THEN ret.value = <<>>
           ELSE /\ Len(ret.value) = 1
                /\ C23_RequiredField(arg.entity, ret.value[1]) = arg.data[1][arg.header]

\* ------------------------------------------------------------------- C24

\* The fetch of the sheet of entity type t failed: a response that is not OK,
\* or an abort by the 30-second signal.
C24_FetchFailed(t) == trace[t].fetch \in {"http", "timeout"}

\* C24: when the fetch of an entity type's sheet returns a non-OK status or is
\* aborted by the timeout, no delete and no insert is issued for that entity
\* type in the invocation, and the rows of its table are what they were when
\* the request arrived.
C24_FailedFetchLeavesData ==
    \A t \in AllEntities :
        C24_FetchFailed(t) =>
            /\ trace[t].delete = "none"
            /\ trace[t].insert = "none"
            /\ store[TableOf(t)] = store0[TableOf(t)]
            /\ results[t].count = 0

\* The fetch of the Program sheet was answered with a non-OK status, the
\* program items of the event are the old ones, and the participants have
\* been replaced.
C24_Witness ==
    /\ pc = "done"
    /\ trace["program"].fetch = "http"
    /\ RowsOfEvent(store["program_items"], req.body.eventId)
          = <<OldRow("program_items", req.body.eventId)>>
    /\ trace["participants"].delete = "ok"
    /\ store["participants"] # store0["participants"]

\* ------------------------------------------------------------------- C25

\* The rows of a table that belong to other events than e.
C25_RowsOfOthers(rows, e) == SelectSeq(rows, LAMBDA r : r.event_id # e)

\* What a step of an invocation with eventId e may do to the tables.
C25_ScopedStep ==
    /\ events' = events
    /\ user_roles' = user_roles
    /\ \A tb \in Tables :
          /\ store'[tb] # store[tb] =>
                pc \in {"delete", "insert"} /\ tb = TableOf(Entity)
          /\ C25_RowsOfOthers(store'[tb], req'.body.eventId)
                = C25_RowsOfOthers(store[tb], req'.body.eventId)
    /\ \A t \in AllEntities : \A i \in DOMAIN trace'[t].sent :
          trace'[t].sent[i].event_id = req'.body.eventId

\* C25: an invocation with eventId e deletes only rows whose event_id is e and
\* inserts only rows whose event_id is e, the pipeline of an entity type
\* writes its own table only, and the rows of every other event and of every
\* other table are unchanged by every step.
C25_ScopedWrites == [][C25_ScopedStep]_vars

\* An invocation has replaced the rows of its event in all three tables and
\* the rows of the other event are in place.
C25_Witness ==
    /\ pc = "done"
    /\ \A t \in AllEntities :
          /\ trace[t].delete = "ok" /\ trace[t].insert = "ok"
          /\ trace[t].sent # <<>>
          /\ RowsOfEvent(store[TableOf(t)], req.body.eventId) = trace[t].sent
          /\ RowsOfEvent(store[TableOf(t)], EventB) = <<OldRow(TableOf(t), EventB)>>

\* ------------------------------------------------------------------- C26

\* The shape of the results of entity type t after a step.
C26_Shape(t) ==
    /\ Len(results'[t].errors) <= 1
    /\ results'[t].count > 0 =>
          /\ results'[t].errors = <<>>
          /\ trace'[t].insert = "ok"
          /\ results'[t].count = Len(trace'[t].sent)

\* C26: in every SyncResult and for each entity type the errors list holds at
\* most one message, count is greater than 0 only if errors is empty, a
\* non-zero count is the number of rows passed to the successful bulk insert
\* of that entity type, and count and errors of an entity type are changed by
\* the steps of its own pipeline only.
C26_ResultShape ==
    [][\A t \in AllEntities :
          /\ C26_Shape(t)
          /\ results'[t] # results[t] =>
                t = Entity /\ pc \in {"fetch", "text", "insert"}]_vars

\* A SyncResult with a count for the Program sheet and one error, and no
\* count, for the Participants sheet.
C26_Witness ==
    /\ pc = "done" /\ response.hasResults
    /\ results["program"].count > 0
    /\ results["program"].errors = <<>>
    /\ Len(results["participants"].errors) = 1
    /\ results["participants"].count = 0

\* ------------------------------------------------------------------- C27

\* C27: every user whom the web UI treats as an admin and for whom is_admin()
\* is true passes the authorization guard of the endpoint: a sync that such a
\* user starts from the event editor, and whose role lookup the service
\* answers, is never answered with 403.
C27_AdminNotionsAgree ==
    (editor.pc # "idle" /\ pc = "done"
        /\ req.auth \in Users /\ req.lookupError \notin {"user", "role"}
        /\ isAdmin(req.auth) /\ is_admin(req.auth))
        => response.status # 403

\* ------------------------------------------------------------------- C28

\* What a step may do when cleanup-orphaned-users runs beside
\* create-admin-user.
C28_Step ==
    /\ \A u \in cleaner'.deletedUsers \ cleaner.deletedUsers :
          /\ u \notin admin_profiles
          /\ u = creator.user => creator.pc = "done"
    /\ creator'.response = "success" => creator'.user \notin cleaner'.deletedUsers

\* C28: under every interleaving of a cleanup-orphaned-users invocation with a
\* create-admin-user invocation, cleanup deletes only auth users that have no
\* admin_profiles row and are not in the middle of creation, and never the
\* auth user of a create-admin-user invocation that returns success.
C28_CleanupSparesCreation == [][C28_Step]_vars

\* ------------------------------------------------------------------- C29

\* The three records create-admin-user makes for the new user.
C29_HasUser == NewUser \in auth_users

C29_HasProfile == NewUser \in admin_profiles

C29_HasRole == \E row \in user_roles : row.user_id = NewUser

\* C29: after an invocation of create-admin-user, with no cleanup running
\* beside it, either it returned success and the auth user, its
\* admin_profiles row and its user_roles row all exist, or it returned an
\* error and none of the three exists, whichever of the steps failed.
C29_AllOrNothing ==
    (creator.pc = "done" /\ cleaner.pc = "idle")
        => IF creator.response = "success"
           THEN C29_HasUser /\ C29_HasProfile /\ C29_HasRole
           ELSE ~C29_HasUser /\ ~C29_HasProfile /\ ~C29_HasRole

\* ------------------------------------------------------------------- C30

\* C30: the normalizers are idempotent: the Date Normalizer applied to a date
\* it returned returns that date, and the Time Normalizer applied to a time
\* it returned returns that time.
C30_NormalizersIdempotent ==
    (arg.fn \in {"parseFlexibleDate", "parseFlexibleTime"} /\ "again" \in DOMAIN ret)
        => ret.again = ret.value

\* The date returned for '15.03.2026' and the time returned for '9.30' have
\* been normalized again.
C30_Witness ==
    /\ "again" \in DOMAIN ret
    /\ \/ arg.text = March15 /\ ret.again = C12_Target
       \/ arg.text = <<"9", ".", "3", "0">> /\ ret.again = C13_Target
====
